---- MODULE Spec2Model ----
(***************************************************************************)
(* Model of the trading control plane of ai-auto-trading.                  *)
(*                                                                         *)
(* Part 1: RateLimitManager (src/src/agents/compactPrompt.ts:192-508), the *)
(* per-exchange request coordinator: sliding 60 s rate window, minimum     *)
(* request spacing, 429 backoff, 418 ban and the circuit breaker.          *)
(*                                                                         *)
(* Time is Date.now() in milliseconds.  waitForRateLimit is an async       *)
(* function: it runs atomically up to each `await setTimeout`, so a call   *)
(* is modelled by the steps WaitForRateLimit (entry up to the first await  *)
(* or the end), WakeRateWait and WakeMinDelay (resumption after a sleep).  *)
(* Several callers may be suspended at once.                               *)
(***************************************************************************)
EXTENDS Integers, Sequences, FiniteSets, TLC

\* ---------------------------------------------------------------- config
\* RateLimitConfig: the values the constructor copies from the config object.
\* The source fixes none of them; these are small values that make the window
\* fill up and the circuit open within a few steps.
maxRequestsPerMinute == 2
minRequestDelay == 100
circuitBreakerThreshold == 2
circuitBreakerTimeout == 30000

\* ------------------------------------------------------- program constants
REQUEST_WINDOW == 60000
BACKOFF_429_DURATION == 60000
STATS_LOG_INTERVAL == 300000
DEFAULT_BAN_MS == 300000
RATE_WAIT_SLACK == 100

\* ----------------------------------------------------------------- bounds
\* Date.now() when the manager is constructed (any epoch time far above
\* STATS_LOG_INTERVAL, as the real clock is).
StartTime == 400000
\* recordFailure is not called once consecutiveFailures has reached this.
MaxFailures == 3

\* Liveness runs: penalties (429, 418, failures) arrive until PenaltyUntil ms
\* after StartTime and the clock is followed until LiveHorizon ms after it.
PenaltyUntil == 10000
LiveHorizon == 450000

\* Concurrent callers of waitForRateLimit on the one manager.
Callers == {"c1", "c2"}
\* Endpoint names passed to waitForRateLimit.
Endpoints == {"ticker", "positions"}
\* handle418Ban(banDurationSeconds?): 0 stands for an omitted argument.
BanInputs == {0, 10}
\* The instants (ms after StartTime) at which the clock is observed.  The
\* penalty clock hits the ends of a 10 s ban, of the circuit timeout and of the
\* 429 backoff; the admission clock hits the ends of the minimum-delay wait
\* and of the rate wait; the liveness clock adds to its instants every
\* pending deadline (see LiveTick).
PenaltyClock == {0, 10000, 30000, 60000, 70000}
AdmissionClock == {0, 100, 200, 10000, 30000, 60000, 60100, 60200}
LiveClock == {0, 10000}

VARIABLES
    now,                      \* Date.now()
    requestTimestamps,        \* sliding window of admitted request times
    lastRequestTime,
    consecutiveFailures,
    circuitBreakerOpenUntil,
    backoffUntil,
    ipBannedUntil,
    requestStats,             \* endpoint -> count (0: no entry in the Map)
    lastStatsLogTime,
    calls,                    \* per caller: the frame of its waitForRateLimit call
    last,                     \* history: the operation that produced this state
    until429                  \* history: end of the window of the last handle429Warning

rlVars == <<requestTimestamps, lastRequestTime, consecutiveFailures,
            circuitBreakerOpenUntil, backoffUntil, ipBannedUntil,
            requestStats, lastStatsLogTime>>

\* Part 2, the registry of managers behind RateLimitManager.getInstance.
VARIABLES
    instances,                \* static instances: exchangeName -> manager (0: no entry)
    managers,                 \* the managers constructed so far, in order
    held,                     \* per caller: the manager reference it obtained
    managerOps                \* history: calls made on registered managers so far

instVars == <<instances, managers, held, managerOps>>

\* Part 3, the reconciler (InconsistentStateResolver) and what it works on.
VARIABLES
    db,                       \* the store as dbClient's connection sees it
    committed,                \* the store as committed (what other connections see)
    inTxn,                    \* a BEGIN TRANSACTION is open on dbClient
    exchange,                 \* positions and recent fills held by the exchange
    failureTracker,           \* ResolveFailureTracker: consecutiveFailures, failedStates
    pass,                     \* per slot: the frame of a resolveInconsistentStates run
    resolveInterval,          \* this.resolveInterval is set
    activeTimers,             \* setInterval timers that have not been cleared
    passCount,                \* history: passes started so far
    faults,                   \* store and exchange failures still to come
    step                      \* history: the reconciler step that produced this state

reconVars == <<db, committed, inTxn, exchange, failureTracker, pass,
               resolveInterval, activeTimers, passCount, faults, step>>

\* Part 4, FeeService and the fills it reads from the exchange.
VARIABLES
    feeNow,                   \* Date.now() as FeeService reads it
    feeCache,                 \* feeCache: orderId -> {result, timestamp}
    fills,                    \* the exchange's recent fills: orderId -> fees
    feeCall,                  \* per call slot: the frame of a getFee / getActualFeeFromTrade call
    feeLast                   \* history: the FeeService step that produced this state

feeVars == <<feeNow, feeCache, fills, feeCall, feeLast>>

\* Part 5, EmailAlertService.
VARIABLES
    mailNow,                  \* Date.now() as the notifier reads it
    lastAlertTime,            \* lastAlertTime: alertKey -> time (0: no entry)
    enabled,                  \* this.enabled (with this.transporter set)
    sending,                  \* per caller: the frame of its sendAlert call
    sent,                     \* history: the e-mails sendMail accepted, in order
    mailLast                  \* history: the last sendAlert call that returned

mailVars == <<mailNow, lastAlertTime, enabled, sending, sent, mailLast>>

\* Part 6, GateExchangeClient and the exchange behind it.
VARIABLES
    gx,                       \* the exchange: position, price-triggered orders, orders
    contractInfoCache,        \* contractInfoCache holds the contract's ContractInfo
    readCall,                 \* the frame of a retrying read operation
    gateCall,                 \* the frames of the placeOrder / setPositionStopLoss calls under way
    gateRun,                  \* history: adapter calls begun, exchange calls failed, position changes
    gateLast                  \* history: the adapter operation that produced this state

gateVars == <<gx, contractInfoCache, readCall, gateCall, gateRun, gateLast>>

\* Part 7: the pure functions of the adapter and of the prompt builder.
VARIABLES
    fnIn,                     \* the arguments of a function application
    fnOut                     \* what the function returned, once applied

pureVars == <<fnIn, fnOut>>

\* Part 8: the GET /api/prices handler and its price cache.
VARIABLES
    priceNow,                 \* Date.now() as the handler reads it
    priceCache,               \* priceCache: {prices, timestamp} or null
    priceReqs,                \* the frames of the requests being handled
    penalty,                  \* the exchange is in a penalty window
    lastGood,                 \* history: symbol -> last fetched price put in the cache
    priceLast                 \* history: the last response sent

priceVars == <<priceNow, priceCache, priceReqs, penalty, lastGood, priceLast>>

lateVars == <<pureVars, priceVars>>

serviceVars == <<feeVars, mailVars, gateVars, lateVars>>

vars == <<now, requestTimestamps, lastRequestTime, consecutiveFailures,
          circuitBreakerOpenUntil, backoffUntil, ipBannedUntil,
          requestStats, lastStatsLogTime, calls, last, until429,
          instVars, reconVars, serviceVars>>

\* ---------------------------------------------------------------- helpers
EmptyStats == [e \in Endpoints |-> 0]

\* The frame of a call that is not in progress.
IdleCall == [pc |-> "idle", now |-> 0, endpoint |-> "", wakeAt |-> 0,
             waitTime |-> 0, delay |-> 0, oldest |-> 0]

\* History record of an operation that is not a waitForRateLimit step.
Op(name) == [op |-> name, c |-> "", e |-> "", res |-> "", callNow |-> 0,
             waitTime |-> 0, delay |-> 0, oldest |-> 0]

\* History record of a waitForRateLimit step of caller c.
CallOp(name, c, e, res, callNow, waitTime, delay, oldest) ==
    [op |-> name, c |-> c, e |-> e, res |-> res, callNow |-> callNow,
     waitTime |-> waitTime, delay |-> delay, oldest |-> oldest]

\* requestTimestamps.filter(timestamp => now - timestamp < REQUEST_WINDOW)
FilterWindow(ts, t) == SelectSeq(ts, LAMBDA x : t - x < REQUEST_WINDOW)

\* A rate wait without the 100 ms of slack.
RateWaitTimeNoSlack(t, oldestTimestamp) ==
    REQUEST_WINDOW - (t - oldestTimestamp)

\* waitTime of the rate wait: until the oldest timestamp leaves the window,
\* and 100 ms more.
RateWaitTime(t, oldestTimestamp) ==
    REQUEST_WINDOW - (t - oldestTimestamp) + RATE_WAIT_SLACK

\* A ban check that never lets a ban end.
banActiveForever == ipBannedUntil > 0

\* this.ipBannedUntil > now, the first check of shouldBlockRequest.
banActive == ipBannedUntil > now

\* shouldBlockRequest(): the verdict, and the penalty fields as it leaves them.
shouldBlockRequest ==
    IF banActive
    THEN [block |-> TRUE, reason |-> "ban", waitMs |-> ipBannedUntil - now,
          ip |-> ipBannedUntil, cf |-> consecutiveFailures,
          cb |-> circuitBreakerOpenUntil, bo |-> backoffUntil]
    ELSE
      LET banEnded == ipBannedUntil > 0 /\ ipBannedUntil <= now
          ip1 == IF banEnded THEN 0 ELSE ipBannedUntil
          cf1 == IF banEnded THEN 0 ELSE consecutiveFailures
          cb1 == IF banEnded THEN 0 ELSE circuitBreakerOpenUntil
          bo1 == IF banEnded THEN 0 ELSE backoffUntil
      IN  IF bo1 > now
          THEN [block |-> TRUE, reason |-> "backoff", waitMs |-> bo1 - now,
                ip |-> ip1, cf |-> cf1, cb |-> cb1, bo |-> bo1]
          ELSE IF cb1 > now
          THEN [block |-> TRUE, reason |-> "circuit", waitMs |-> cb1 - now,
                ip |-> ip1, cf |-> cf1, cb |-> cb1, bo |-> bo1]
          ELSE
            LET circuitEnded == cb1 > 0 /\ cb1 <= now
            IN  [block |-> FALSE, reason |-> "", waitMs |-> 0,
                 ip |-> ip1,
                 cf |-> IF circuitEnded THEN 0 ELSE cf1,
                 cb |-> IF circuitEnded THEN 0 ELSE cb1,
                 bo |-> bo1]

\* recordRequestStat(endpoint): count, then the 5-minute roll of the counters.
recordRequestStat(e) ==
    LET counted == [requestStats EXCEPT ![e] = @ + 1]
    IN  IF now - lastStatsLogTime > STATS_LOG_INTERVAL
        THEN /\ requestStats' = EmptyStats
             /\ lastStatsLogTime' = now
        ELSE /\ requestStats' = counted
             /\ UNCHANGED lastStatsLogTime

\* Step 5 and 6 of waitForRateLimit: record the request; the call returns.
RecordRequest(c, e, ts, h) ==
    /\ requestTimestamps' = Append(ts, now)
    /\ lastRequestTime' = now
    /\ recordRequestStat(e)
    /\ calls' = [calls EXCEPT ![c] = IdleCall]
    /\ last' = h

\* Step 4 of waitForRateLimit, entered at the call or after the rate wait.
\* callNow is the `now` the call captured at line 311; lastRequestTime is read
\* when the step runs.
MinDelayStep(c, e, ts, name, callNow, waitTime, oldest) ==
    LET timeSinceLastRequest == callNow - lastRequestTime
        delay == minRequestDelay - timeSinceLastRequest
    IN  IF timeSinceLastRequest < minRequestDelay
        THEN /\ calls' = [calls EXCEPT ![c] =
                    [pc |-> "minDelay", now |-> callNow, endpoint |-> e,
                     wakeAt |-> now + delay, waitTime |-> waitTime,
                     delay |-> delay, oldest |-> oldest]]
             /\ requestTimestamps' = ts
             /\ last' = CallOp(name, c, e, "minDelay", callNow, waitTime, delay, oldest)
             /\ UNCHANGED <<lastRequestTime, requestStats, lastStatsLogTime>>
        ELSE RecordRequest(c, e, ts,
                 CallOp(name, c, e, "record", callNow, waitTime, 0, oldest))

\* ------------------------------------------------ registry: values
\* Exchange names passed in config.exchangeName.
ExchangeNames == {"gate", "binance"}
\* RateLimitConfig objects passed to getInstance.  Only the name and one
\* limit are kept apart here; callers may ask for "gate" with different
\* limits.
InstanceConfigs ==
    [exchangeName : {"gate"}, maxRequestsPerMinute : {1, 2}]
      \cup [exchangeName : {"binance"}, maxRequestsPerMinute : {2}]
\* At most this many managers are ever constructed.
MaxManagers == 3
\* At most this many calls are made on registered managers in one run.
MaxManagerOps == 3

\* A caller that holds no manager and has no waitForRateLimit call under way.
\* pc, callNow, wakeAt: the frame of the caller's waitForRateLimit call on
\* the manager it holds.
NoManager == [mgr |-> 0, exchangeName |-> "", pc |-> "idle", callNow |-> 0,
              wakeAt |-> 0]

\* new RateLimitManager(config): a fresh manager.  The limits other than
\* maxRequestsPerMinute are those of the config section above.
NewManager(config) ==
    [exchangeName |-> config.exchangeName,
     maxRequestsPerMinute |-> config.maxRequestsPerMinute,
     requestTimestamps |-> <<>>,
     lastRequestTime |-> 0,
     consecutiveFailures |-> 0,
     circuitBreakerOpenUntil |-> 0,
     backoffUntil |-> 0,
     ipBannedUntil |-> 0]

\* The instants (ms after StartTime) at which the clock of the registry runs
\* is observed: the end of a minimum-delay wait, and the end of a rate wait,
\* by which every penalty of the first two instants is over.
RegistryClock == {0, 100, 60100}

InitInstances ==
    /\ instances = [n \in ExchangeNames |-> 0]
    /\ managers = <<>>
    /\ held = [c \in Callers |-> NoManager]
    /\ managerOps = 0

\* ---------------------------------------------- reconciler: values
\* Alert thresholds of ResolveFailureTracker.
ROW_ALERT_THRESHOLD == 5
OVERALL_ALERT_THRESHOLD == 10

\* Store and exchange calls that fail (throw) during one behaviour.
MaxFaults == 2
\* Passes started during one behaviour: in the repair runs, and in the runs
\* that follow the failure counters up to the alert thresholds.
MaxPasses == 2
AlertPasses == 11

Sides == {"long", "short"}
\* The one traded symbol and its contract name on the exchange.
Symbol == "BTC"
normalizeContract(symbol) == IF symbol = "BTC" THEN "BTC_USDT" ELSE symbol
\* state.operation: the last one has no case in resolveState.
Operations == {"close_position", "price_order_triggered", "open_position"}
OrderIds == {"o1", "o2"}
RowIds == {1, 2}
\* Runs of resolveInconsistentStates that may be in progress at once: the
\* timer callback does not wait for the previous run.
Passes == {"p1", "p2"}

\* A row of inconsistent_states as it is written when a store write failed
\* after the exchange had acknowledged the order.
StateRow(id, operation, side, orderId) ==
    [id |-> id, operation |-> operation, symbol |-> Symbol, side |-> side,
     exchange_order_id |-> orderId, resolved |-> 0, resolved_by |-> "",
     resolved_at |-> 0]

OpenTrade(side) ==
    [order_id |-> "open", symbol |-> Symbol, side |-> side, type |-> "open",
     from |-> 0]

\* The store: one record per table.  trades.from and
\* position_close_events.from are history fields: the id of the
\* inconsistent_states row whose repair inserted the row (0: none).
Store(positionSides, openTradeSides, rows) ==
    [positions |-> {[symbol |-> Symbol, side |-> sd] : sd \in positionSides},
     price_orders |-> {[id |-> 1, symbol |-> Symbol, side |-> "long",
                        status |-> "active"],
                       [id |-> 2, symbol |-> Symbol, side |-> "short",
                        status |-> "active"]},
     trades |-> IF openTradeSides = {"long", "short"}
                THEN <<OpenTrade("long"), OpenTrade("short")>>
                ELSE IF openTradeSides = {} THEN <<>>
                ELSE <<OpenTrade(CHOOSE sd \in openTradeSides : TRUE)>>,
     position_close_events |-> <<>>,
     inconsistent_states |-> rows]

\* The first row always exists; a second row may repeat its (symbol, side),
\* its order, or neither.
SecondRows ==
    {StateRow(2, "close_position", "long", "o2"),
     StateRow(2, "close_position", "short", "o2"),
     StateRow(2, "close_position", "long", "o1")}

RowInputs ==
    {<<StateRow(1, op, "long", "o1")>> : op \in Operations}
      \cup {<<StateRow(1, "close_position", "long", "o1"), r>> : r \in SecondRows}
      \cup {<<StateRow(1, "open_position", "long", "o1"),
              StateRow(2, "close_position", "long", "o2")>>}

\* What the exchange reports: the size of the position of each side of the
\* contract (short sizes are negative) and the order ids of the recent fills.
ExchangeInputs ==
    [positions : {[sd \in Sides |-> IF sd = "long" THEN l ELSE s] :
                     l \in {0, 1}, s \in {0, -1}},
     fills : {{"o2"}, {"o1", "o2"}}]

IdlePass == [pc |-> "idle", rows |-> <<>>, i |-> 0, n |-> 0, origin |-> ""]
\* History record of a reconciler step: the statement or call that ran, the
\* slot and row it ran for, whether it succeeded, the rows whose handling
\* ended in this step (failed, resolved), the alerts sent, and whether the
\* run of resolveInconsistentStates ended.
StepRec(op, p, row, ok, reason) ==
    [op |-> op, p |-> p, row |-> row, ok |-> ok, reason |-> reason,
     failed |-> {}, resolved |-> 0, alerts |-> {}, ended |-> FALSE]
NoStep == StepRec("init", "", 0, TRUE, "")
EmptyTracker == [consecutiveFailures |-> 0, failedStates |-> [i \in RowIds |-> 0]]

\* No run in progress, no failure on record.
InitRuns ==
    /\ inTxn = FALSE
    /\ failureTracker = EmptyTracker
    /\ pass = [p \in Passes |-> IdlePass]
    /\ passCount = 0
    /\ step = NoStep

\* The reconciler before start(): nothing in progress, no timer.
InitResolver ==
    /\ InitRuns
    /\ resolveInterval = FALSE
    /\ activeTimers = 0

\* The reconciler as the coordinator runs see it: an empty store, never started.
InitReconIdle ==
    /\ InitResolver
    /\ db = Store({}, {}, <<>>)
    /\ committed = db
    /\ exchange = [positions |-> [sd \in Sides |-> 0], fills |-> {}]
    /\ faults = 0

\* The reconciler over a store that holds unresolved rows.  start() ran
\* when the table was still empty, so its timer is set; the rows were
\* written since.
InitRecon ==
    /\ InitRuns
    /\ resolveInterval = TRUE
    /\ activeTimers = 1
    /\ \E rows \in RowInputs, ps \in {{"long"}, {"long", "short"}},
          ts \in {{"short"}, {"long", "short"}} :
          db = Store(ps, ts, rows)
    /\ committed = db
    /\ exchange \in ExchangeInputs
    /\ faults = MaxFaults

\* ------------------------------------------------------------------- Init
InitCoordinator ==
    /\ now = StartTime
    /\ requestTimestamps = <<>>
    /\ lastRequestTime = 0
    /\ consecutiveFailures = 0
    /\ circuitBreakerOpenUntil = 0
    /\ backoffUntil = 0
    /\ ipBannedUntil = 0
    /\ requestStats = EmptyStats
    /\ lastStatsLogTime = 0
    /\ calls = [c \in Callers |-> IdleCall]
    /\ last = Op("init")
    /\ until429 = 0

\* ------------------------------------------------- Part 4: FeeService
\* private readonly CACHE_TTL = 300000
CACHE_TTL == 300000

\* getFee(orderId: string | null, ...): the value standing for null.
NoOrder == "none"

\* The instants (ms after StartTime) at which FeeService reads the clock: two
\* at the start and two a cache lifetime later, so that an entry is read at
\* the ages 299999, 300000 and 300001.
FeeClock == {0, 1, 300000, 300001}

\* trade.fee of a fill, in units of 0.0001 USDT: none charged, a fee, and a
\* rebate (a negative fee).
FillFees == {0, 3, -2}
\* The fills the exchange reports, over all orders.
MaxFills == 2
\* The arguments (notionalValue in USDT, isMaker) of the calls.
FeeArgs == {<<-100, TRUE>>, <<100, FALSE>>}

\* The FeeService is constructed over the Gate adapter.
feeExchangeName == "gate"
feeNetworkType == "mainnet"

\* RISK_PARAMS.FEE_RATES[exchange][network], rates in units of 0.0001.
FEE_RATES ==
    [gate |-> [mainnet |-> [maker |-> 2, taker |-> 5],
               testnet |-> [maker |-> 0, taker |-> 0]],
     binance |-> [mainnet |-> [maker |-> 2, taker |-> 4],
                  testnet |-> [maker |-> 0, taker |-> 0]]]

\* getActualFeeFromTrade returned null (or has not returned).
NullResult == [fee |-> 0, source |-> "null", rate |-> 0]

IdleFeeCall == [pc |-> "idle", via |-> "", orderId |-> NoOrder,
                notional |-> 0, isMaker |-> FALSE]
\* getFee / getActualFeeFromTrade calls that may be under way at once: the
\* functions are async and nothing keeps a second call from starting while
\* the first awaits getMyTrades.
FeeCalls == {"f1", "f2"}

\* History record of a FeeService step.  actual: what getActualFeeFromTrade
\* answered; result: what the call returned; queried: getMyTrades was called
\* in this call; exchangeOk: it answered; done: the call has returned.
FeeStep(op, phase, f, c, actual, result, queried, exchangeOk, done) ==
    [op |-> op, phase |-> phase, call |-> f, orderId |-> c.orderId,
     notional |-> c.notional, isMaker |-> c.isMaker, actual |-> actual,
     result |-> result, queried |-> queried, exchangeOk |-> exchangeOk,
     done |-> done]

FeeOp(name) ==
    FeeStep(name, "", "", IdleFeeCall, NullResult, NullResult, FALSE, TRUE, FALSE)

\* new FeeService(exchangeClient): an empty cache; the exchange has no fill.
InitFeeService ==
    /\ feeNow = StartTime
    /\ feeCache = [o \in {} |-> NullResult]
    /\ fills = [o \in OrderIds |-> <<>>]
    /\ feeCall = [f \in FeeCalls |-> IdleFeeCall]
    /\ feeLast = FeeOp("init")

\* ------------------------------------------ Part 5: EmailAlertService
\* private alertCooldown: number = 5 * 60 * 1000
alertCooldown == 300000

AlertLevels == {"ERROR", "CRITICAL"}
AlertTitles == {"auto-resolve failed"}
\* alert.message: the per-row failure alert names the row.
AlertMessages == {"row 1", "row 2"}
\* const alertKey = `${alert.level}-${alert.title}`: an AlertLevel holds no
\* "-", so the key determines the pair and the pair the key.
alertKey(level, title) == <<level, title>>
AlertKeys == {alertKey(l, t) : l \in AlertLevels, t \in AlertTitles}

\* Concurrent callers of sendAlert.
Senders == {"s1", "s2"}
\* The e-mails followed in one run.
MaxMails == 3
\* The instants (ms after StartTime) at which the notifier reads the clock.
MailClock == {0, 1, 299999, 300000, 300001}

IdleSend == [pc |-> "idle", key |-> alertKey("", ""), now |-> 0, message |-> ""]

\* The notifier after construction: initialize() has not run.
InitMail ==
    /\ mailNow = StartTime
    /\ lastAlertTime = [k \in AlertKeys |-> 0]
    /\ enabled = FALSE
    /\ sending = [s \in Senders |-> IdleSend]
    /\ sent = <<>>
    /\ mailLast = [op |-> "init"]

\* ----------------------------------------- Part 6: GateExchangeClient
\* The one contract followed.
Contract == "BTC_USDT"

\* The retrying read operations and the `retries` argument (default 2).
ReadOps == {"getFuturesTicker", "getFuturesCandles", "getFuturesAccount",
            "getPositions"}
RetryInputs == {0, 1, 2, 3}
\* HTTP status of one exchange call.
ReadStatuses == {200, 401, 500}

IdleRead == [pc |-> "idle", op |-> "", retries |-> 0, i |-> 0,
             waits |-> <<>>, errors |-> <<>>]

\* const API_MAX_SIZE = 10000000
API_MAX_SIZE == 10000000

\* Prices are whole numbers of USDT below 2^14 and the ticks
\* (orderPriceRound) are whole numbers of USDT: numbers a double holds
\* exactly.  A product with a percentage (markPrice * (1 + 0.015)) is a
\* decimal of thousandths that a double need not hold exactly; the model
\* carries it as the decimal in thousandths together with the side of the
\* decimal the double lies on (see Times).  Prices sent to the exchange are
\* in thousandths of a USDT.
\* ContractInfo: orderSizeMin, orderSizeMax and the tick (orderPriceRound).
ContractInfos ==
    {[orderSizeMin |-> 1, orderSizeMax |-> 3, tick |-> 1],
     [orderSizeMin |-> 2, orderSizeMax |-> 3, tick |-> 10],
     [orderSizeMin |-> 2, orderSizeMax |-> API_MAX_SIZE + 1, tick |-> 10]}
\* The mark price of the contract.
Marks == {2000, 7000}
\* params.size of placeOrder.
OrderSizes == {1, 4, API_MAX_SIZE, API_MAX_SIZE + 1,
               -1, -4, -API_MAX_SIZE, -(API_MAX_SIZE + 1)}
\* params.price of a limit order: the mark moved by this many thousandths
\* (15: the edge of the band).
PricePermille == {-20, 10, 15, 20}
\* (size, price) of placeOrder: a market order (price 0) of every size, a
\* limit order of one contract bought or sold at every price.
OrderRequests ==
    {<<s, 0>> : s \in OrderSizes}
        \cup {<<s, k>> : s \in {1, -1}, k \in PricePermille}
\* (stopLoss, takeProfit) of setPositionStopLoss: the mark moved by this
\* many thousandths, 0 for a price left out.  For a long position: a
\* stop-loss that is kept, one on the triggered side, a take-profit on the
\* triggered side, and both kept; for a short one: a stop-loss on the
\* triggered side, one too close, a take-profit too close, and both on the
\* triggered side; and a call with neither price.
TriggerRequests == {<<-4, 0>>, <<1, 0>>, <<0, -1>>, <<-4, 4>>, <<0, 0>>}
\* The position sizes the exchange reports (0: no position).
PositionSizes == {-1, 0, 2}
\* Ids the exchange hands out in one run: to resting orders, and to orders
\* and price-triggered orders together.
MaxOrderId == 2
MaxId == 3
\* Adapter calls begun in one run, exchange calls that fail in one run, and
\* changes of the position in one run.
MaxGateOps == 2
MaxCallFaults == 3
MaxPositionMoves == 1
\* 0.01 USDT in thousandths: what price.toFixed(2) rounds to.
CENT == 10

\* The calls under way: placeOrder and setPositionStopLoss are async, and a
\* second call may start while the first awaits the exchange.
GateCalls == {"g1", "g2"}

NoGateOrder == [size |-> 0, price |-> 0, tif |-> ""]

\* The frame of a call that is not under way.  pending: the trigger price on
\* its way to the exchange; placed: the triggers this call created.
IdleGateCall ==
    [pc |-> "idle", op |-> "", size |-> 0, price |-> 0,
     stopLoss |-> 0, takeProfit |-> 0, i |-> 0,
     side |-> "", closeSize |-> 0, cancelled |-> FALSE,
     kind |-> "", pending |-> [milli |-> 0, off |-> 0],
     order |-> NoGateOrder, placed |-> {}]

\* The adapter after construction, over an exchange with no position, no
\* price-triggered order and no open order.
InitGateIdle ==
    /\ gx = [position |-> 0, triggers |-> {}, orders |-> {}, nextId |-> 1,
             mark |-> 7000,
             info |-> [orderSizeMin |-> 1, orderSizeMax |-> 3, tick |-> 1]]
    /\ contractInfoCache = <<>>
    /\ readCall = IdleRead
    /\ gateCall = [g \in GateCalls |-> IdleGateCall]
    /\ gateRun = [calls |-> 0, faults |-> 0, moves |-> 0]
    /\ gateLast = [op |-> "init"]

\* The same over any of the contracts and mark prices followed.
InitGate ==
    /\ \E info \in ContractInfos, mark \in Marks :
          gx = [position |-> 0, triggers |-> {}, orders |-> {}, nextId |-> 1,
                mark |-> mark, info |-> info]
    /\ contractInfoCache = <<>>
    /\ readCall = IdleRead
    /\ gateCall = [g \in GateCalls |-> IdleGateCall]
    /\ gateRun = [calls |-> 0, faults |-> 0, moves |-> 0]
    /\ gateLast = [op |-> "init"]

\* ------------------------------------------------------- part 7 values
\* Strings that the code splits or concatenates are sequences of characters.
BTC == <<"B", "T", "C">>
ETH == <<"E", "T", "H">>
DOGE == <<"D", "O", "G", "E">>
USDT == <<"U", "S", "D", "T">>
BTC_USDT == <<"B", "T", "C", "_", "U", "S", "D", "T">>
ETH_USDT == <<"E", "T", "H", "_", "U", "S", "D", "T">>
DOGE_USDT == <<"D", "O", "G", "E", "_", "U", "S", "D", "T">>

\* RISK_PARAMS.TRADING_SYMBOLS, the configured symbols (two of them).
TRADING_SYMBOLS == {BTC, ETH}

\* The USDT-settled contracts the exchange lists.
GateContracts == {BTC_USDT, ETH_USDT, DOGE_USDT}

\* What listPositions reports: a list of at most MaxListed entries.
MaxListed == 2
ListedSizes == {0, 1, -2}
ListedEntries == [contract : GateContracts, size : ListedSizes]
ListedBodies ==
    UNION {[1..n -> ListedEntries] : n \in 0..MaxListed}

\* partial_close_percentage and warningScore as written to a position;
\* reversalWarning is 1, 0 or missing (-1).
PartialPercents == {0, 1, 32, 33, 34, 65, 66, 67, 99, 100}
WarningScores == {0, 49, 50, 69, 70, 100}
ReversalWarnings == {-1, 0, 1}

NotApplied == [applied |-> FALSE]

PureInputs ==
    {[kind |-> "positions", body |-> b] : b \in ListedBodies}
    \cup {[kind |-> "symbol", symbol |-> x] : x \in TRADING_SYMBOLS}
    \cup {[kind |-> "contract", contract |-> c] : c \in GateContracts}
    \cup {[kind |-> "stage", partial |-> q] : q \in PartialPercents}
    \cup {[kind |-> "warning", warningScore |-> w, reversalWarning |-> r] :
              w \in WarningScores, r \in ReversalWarnings}

\* No function application is under way.
InitPureIdle ==
    /\ fnIn = [kind |-> "none"]
    /\ fnOut = NotApplied

\* A function is about to be applied to one of the inputs.
InitPureInputs ==
    /\ fnIn \in PureInputs
    /\ fnOut = NotApplied

\* ------------------------------------------------------- part 8 values
PRICE_CACHE_TTL == 5000

NoCache == [timestamp |-> -1]

\* The symbols of TRADING_SYMBOLS the handler asks for (one batch).
PriceSymbols == {"BTC", "ETH"}

\* The prices a ticker reports.
TickerPrices == {100, 101}

\* The requests that can be in the handler at the same time.
Requests == {"q1", "q2"}

\* The clock advances by one of these steps, up to MaxPriceTime.
PriceSteps == {4999, 5000}
MaxPriceTime == 5000

IdleRequest == [pc |-> "idle"]

InitPrices ==
    /\ priceNow = 0
    /\ priceCache = NoCache
    /\ priceReqs = [r \in Requests |-> IdleRequest]
    /\ penalty = FALSE
    /\ lastGood = [x \in PriceSymbols |-> 0]
    /\ priceLast = [op |-> "init"]

\* The services of parts 4 to 8 after construction.
InitServices ==
    InitFeeService /\ InitMail /\ InitGateIdle /\ InitPureIdle /\ InitPrices

\* The state after construction, for the runs of the coordinator.
Init == InitCoordinator /\ InitInstances /\ InitReconIdle /\ InitServices

\* ---------------------------------------------------------------- actions
\* waitForRateLimit(endpoint), from entry to the first await or to the end.
WaitForRateLimit(c, e) ==
    /\ calls[c].pc = "idle"
    /\ UNCHANGED <<serviceVars, instVars, reconVars, now, until429>>
    /\ LET b == shouldBlockRequest
       IN  IF b.block
           THEN \* throw new Error(reason): the call rejects at once
                /\ last' = CallOp("call", c, e, "reject", now, 0, 0, 0)
                /\ UNCHANGED <<rlVars, calls>>
           ELSE
             /\ ipBannedUntil' = b.ip
             /\ consecutiveFailures' = b.cf
             /\ circuitBreakerOpenUntil' = b.cb
             /\ backoffUntil' = b.bo
             /\ LET ts == FilterWindow(requestTimestamps, now)
                    oldestTimestamp == ts[1]
                    waitTime == RateWaitTime(now, oldestTimestamp)
                IN  IF Len(ts) >= maxRequestsPerMinute /\ waitTime > 0
                    THEN /\ calls' = [calls EXCEPT ![c] =
                                [pc |-> "rateWait", now |-> now, endpoint |-> e,
                                 wakeAt |-> now + waitTime, waitTime |-> waitTime,
                                 delay |-> 0, oldest |-> oldestTimestamp]]
                         /\ requestTimestamps' = ts
                         /\ last' = CallOp("call", c, e, "rateWait", now,
                                           waitTime, 0, oldestTimestamp)
                         /\ UNCHANGED <<lastRequestTime, requestStats, lastStatsLogTime>>
                    ELSE MinDelayStep(c, e, ts, "call", now, 0, 0)

\* The setTimeout of the rate wait has fired: the call resumes at step 4.
WakeRateWait(c) ==
    /\ calls[c].pc = "rateWait"
    /\ now >= calls[c].wakeAt
    /\ UNCHANGED <<serviceVars, instVars, reconVars, now, until429, consecutiveFailures, circuitBreakerOpenUntil,
                   backoffUntil, ipBannedUntil>>
    /\ MinDelayStep(c, calls[c].endpoint, requestTimestamps, "wakeRate",
                    calls[c].now, calls[c].waitTime, calls[c].oldest)

\* The setTimeout of the minimum-delay wait has fired: the call resumes at step 5.
WakeMinDelay(c) ==
    /\ calls[c].pc = "minDelay"
    /\ now >= calls[c].wakeAt
    /\ UNCHANGED <<serviceVars, instVars, reconVars, now, until429, consecutiveFailures, circuitBreakerOpenUntil,
                   backoffUntil, ipBannedUntil>>
    /\ RecordRequest(c, calls[c].endpoint, requestTimestamps,
           CallOp("wakeDelay", c, calls[c].endpoint, "record", calls[c].now,
                  calls[c].waitTime, calls[c].delay, calls[c].oldest))

handle429Warning ==
    /\ backoffUntil' = now + BACKOFF_429_DURATION
    /\ until429' = now + BACKOFF_429_DURATION
    /\ last' = Op("handle429Warning")
    /\ UNCHANGED <<serviceVars, instVars, reconVars, now, requestTimestamps, lastRequestTime, consecutiveFailures,
                   circuitBreakerOpenUntil, ipBannedUntil, requestStats,
                   lastStatsLogTime, calls>>

handle418Ban(banDurationSeconds) ==
    LET duration == IF banDurationSeconds # 0 THEN banDurationSeconds * 1000
                    ELSE DEFAULT_BAN_MS
    IN  /\ ipBannedUntil' = now + duration
        /\ circuitBreakerOpenUntil' = now + duration
        /\ consecutiveFailures' = circuitBreakerThreshold
        /\ last' = Op("handle418Ban")
        /\ UNCHANGED <<serviceVars, instVars, reconVars, now, requestTimestamps, lastRequestTime, backoffUntil,
                       requestStats, lastStatsLogTime, calls, until429>>

\* A recordSuccess that also closes the circuit and ends the backoff.
recordSuccessClosesCircuit ==
    /\ consecutiveFailures' = 0
    /\ circuitBreakerOpenUntil' = 0
    /\ backoffUntil' = 0
    /\ last' = Op("recordSuccess")
    /\ UNCHANGED <<serviceVars, instVars, reconVars, now, requestTimestamps, lastRequestTime, ipBannedUntil,
                   requestStats, lastStatsLogTime, calls, until429>>

recordSuccess ==
    /\ consecutiveFailures' = 0
    /\ last' = Op("recordSuccess")
    /\ UNCHANGED <<serviceVars, instVars, reconVars, now, requestTimestamps, lastRequestTime,
                   circuitBreakerOpenUntil, backoffUntil, ipBannedUntil,
                   requestStats, lastStatsLogTime, calls, until429>>

\* A recordFailure that opens the circuit only when the count is exactly the
\* threshold.
recordFailureOnlyAtThreshold ==
    /\ consecutiveFailures < MaxFailures
    /\ consecutiveFailures' = consecutiveFailures + 1
    /\ circuitBreakerOpenUntil' =
           IF consecutiveFailures + 1 = circuitBreakerThreshold
           THEN now + circuitBreakerTimeout
           ELSE circuitBreakerOpenUntil
    /\ last' = Op("recordFailure")
    /\ UNCHANGED <<serviceVars, instVars, reconVars, now, requestTimestamps, lastRequestTime, backoffUntil,
                   ipBannedUntil, requestStats, lastStatsLogTime, calls, until429>>

recordFailure ==
    /\ consecutiveFailures < MaxFailures
    /\ consecutiveFailures' = consecutiveFailures + 1
    /\ circuitBreakerOpenUntil' =
           IF consecutiveFailures + 1 >= circuitBreakerThreshold
           THEN now + circuitBreakerTimeout
           ELSE circuitBreakerOpenUntil
    /\ last' = Op("recordFailure")
    /\ UNCHANGED <<serviceVars, instVars, reconVars, now, requestTimestamps, lastRequestTime, backoffUntil,
                   ipBannedUntil, requestStats, lastStatsLogTime, calls, until429>>

reset ==
    /\ consecutiveFailures' = 0
    /\ circuitBreakerOpenUntil' = 0
    /\ backoffUntil' = 0
    /\ ipBannedUntil' = 0
    /\ requestTimestamps' = <<>>
    /\ until429' = 0
    /\ last' = Op("reset")
    /\ UNCHANGED <<serviceVars, instVars, reconVars, now, lastRequestTime, requestStats, lastStatsLogTime, calls>>

\* getStats().isCircuitBreakerOpen
isCircuitBreakerOpen == circuitBreakerOpenUntil > now

\* Date.now() advances to a later instant of the clock.  A due timer may fire
\* late: the clock may pass a caller's wakeAt before the caller resumes.
Tick(clock) ==
    /\ \E d \in clock :
          /\ StartTime + d > now
          /\ now' = StartTime + d
    /\ last' = Op("tick")
    /\ UNCHANGED <<serviceVars, instVars, reconVars, rlVars, calls, until429>>

\* The coordinator under penalties: one caller, every feedback hook.
Next ==
    \/ \E e \in Endpoints : WaitForRateLimit("c1", e)
    \/ WakeRateWait("c1")
    \/ WakeMinDelay("c1")
    \/ handle429Warning
    \/ \E d \in BanInputs : handle418Ban(d)
    \/ recordSuccess
    \/ recordFailure
    \/ reset
    \/ Tick(PenaltyClock)

Spec == Init /\ [][Next]_vars

\* Admission under concurrency: several callers, no penalty.
NextAdmission ==
    \/ \E c \in Callers, e \in Endpoints : WaitForRateLimit(c, e)
    \/ \E c \in Callers : WakeRateWait(c)
    \/ \E c \in Callers : WakeMinDelay(c)
    \/ Tick(AdmissionClock)

SpecAdmission == Init /\ [][NextAdmission]_vars

\* ------------------------------------------------------------ liveness
\* The coordinator with one caller, c1, that keeps calling: c1 calls again at
\* every instant at which it has no call in progress, timers fire when due,
\* and the clock moves from each instant to the next at which something
\* happens.  Penalties arrive until PenaltyUntil; reset(), the manual
\* emergency operation, is left to Spec.
SetMin(S) == CHOOSE x \in S : \A y \in S : x <= y

LiveInstants ==
    {StartTime + d : d \in LiveClock}
      \cup {ipBannedUntil, backoffUntil, circuitBreakerOpenUntil}
      \cup {calls[c].wakeAt : c \in {x \in Callers : calls[x].pc # "idle"}}

Upcoming == {t \in LiveInstants : t > now /\ t <= StartTime + LiveHorizon}

PenaltyPhase == now <= StartTime + PenaltyUntil

LiveTick ==
    /\ Upcoming # {}
    /\ \A c \in Callers : calls[c].pc # "idle" => now < calls[c].wakeAt
    /\ calls["c1"].pc = "idle" => shouldBlockRequest.block
    /\ now' = SetMin(Upcoming)
    /\ last' = Op("tick")
    /\ UNCHANGED <<serviceVars, instVars, reconVars, rlVars, calls, until429>>

KeepCalling == \E e \in Endpoints : WaitForRateLimit("c1", e)

NextLive ==
    \/ KeepCalling
    \/ WakeRateWait("c1")
    \/ WakeMinDelay("c1")
    \/ (PenaltyPhase /\ handle429Warning)
    \/ (PenaltyPhase /\ \E d \in BanInputs : handle418Ban(d))
    \/ (PenaltyPhase /\ recordFailure)
    \/ recordSuccess
    \/ LiveTick

SpecLive ==
    /\ Init
    /\ [][NextLive]_vars
    /\ WF_vars(LiveTick)
    /\ WF_vars(KeepCalling)
    /\ WF_vars(WakeRateWait("c1"))
    /\ WF_vars(WakeMinDelay("c1"))

\* ================================================================ claims
\* Some penalty deadline lies in the future.
PenaltyActive ==
    now < ipBannedUntil \/ now < backoffUntil \/ now < circuitBreakerOpenUntil

\* ---------------------------------------------------------------------
\* C1: a waitForRateLimit call made while now < ipBannedUntil, or
\* now < backoffUntil, or now < circuitBreakerOpenUntil rejects at once, and
\* the rejected call leaves requestTimestamps, lastRequestTime and the
\* endpoint counters unchanged.
C1_BlockedCallRejects ==
    [][(last'.op = "call" /\ PenaltyActive)
         => /\ last'.res = "reject"
            /\ UNCHANGED <<requestTimestamps, lastRequestTime, requestStats>>]_vars

\* ---------------------------------------------------------------------
\* C2: after handle429Warning at time T no call made in [T, T+60 s) is
\* admitted, whatever else happens in between (reset excepted: it ends the
\* window); a call made with no penalty active is admitted.
C2_NoAdmissionFor60sAfter429 ==
    [][/\ (last'.op = "call" /\ now < until429) => last'.res = "reject"
       /\ (last'.op = "call" /\ ~PenaltyActive) => last'.res # "reject"]_vars

\* ---------------------------------------------------------------------
\* C3: the timestamps admitted inside any 60-second window never number more
\* than maxRequestsPerMinute.  requestTimestamps is in admission order and
\* keeps every timestamp that is less than 60 s older than its last one.
C3_WindowNeverExceedsMax ==
    \A i \in 1..Len(requestTimestamps) : \A j \in i..Len(requestTimestamps) :
        requestTimestamps[j] - requestTimestamps[i] < REQUEST_WINDOW
            => j - i + 1 <= maxRequestsPerMinute

\* ---------------------------------------------------------------------
\* C4: two requests admitted one after the other have lastRequestTime values
\* at least minRequestDelay apart.
C4_AdmissionsSpacedByMinDelay ==
    [][(last'.res = "record" /\ lastRequestTime > 0)
         => lastRequestTime' - lastRequestTime >= minRequestDelay]_vars

\* ---------------------------------------------------------------------
\* C5: while a ban is active the circuit is open at least as long as the ban,
\* so getStats().isCircuitBreakerOpen is true during the whole ban window.
C5_CircuitCoversBan ==
    now < ipBannedUntil
        => /\ circuitBreakerOpenUntil >= ipBannedUntil
           /\ isCircuitBreakerOpen

C7_RecordSuccessFrame ==
    [][last'.op = "recordSuccess"
         => /\ consecutiveFailures' = 0
            /\ UNCHANGED <<serviceVars, instVars, reconVars, now, circuitBreakerOpenUntil, backoffUntil,
                           ipBannedUntil, requestTimestamps, lastRequestTime,
                           requestStats, lastStatsLogTime, calls>>
            /\ (shouldBlockRequest.block => shouldBlockRequest'.block)]_vars

\* A success was reported with failures on record while a penalty blocks calls.
C7_Witness ==
    /\ last.op = "recordSuccess"
    /\ shouldBlockRequest.block
    /\ circuitBreakerOpenUntil > now

\* ---------------------------------------------------------------------
\* C8: a call that finds the window full after the eviction sleeps
\* REQUEST_WINDOW - (now - oldestTimestamp) + 100 ms in the rate wait, and
\* when its request is recorded the timestamp that was the oldest is more
\* than 60 s old.
C8_RateWaitOutlastsOldest ==
    /\ [][(/\ last'.op = "call"
           /\ last'.res # "reject"
           /\ Len(FilterWindow(requestTimestamps, now)) = maxRequestsPerMinute)
            => /\ last'.res = "rateWait"
               /\ last'.oldest = FilterWindow(requestTimestamps, now)[1]
               /\ last'.waitTime =
                    REQUEST_WINDOW - (now - last'.oldest) + 100
               /\ calls'[last'.c].wakeAt = now + last'.waitTime]_vars
    /\ [](\A c \in Callers : calls[c].pc = "rateWait" => now < calls[c].wakeAt
            \/ now - calls[c].oldest > REQUEST_WINDOW)
    /\ []((last.res = "record" /\ last.waitTime > 0)
            => /\ now >= last.callNow + last.waitTime
               /\ now - last.oldest > REQUEST_WINDOW)

\* A request was recorded by a call that had slept in the rate wait.
C8_Witness ==
    /\ last.res = "record"
    /\ last.waitTime > 0
    /\ last.waitTime = REQUEST_WINDOW - (last.callNow - last.oldest) + 100

\* ---------------------------------------------------------------------
\* C9: the sleeps one call asks for add up to at most REQUEST_WINDOW + 100 ms.
C9_TotalWaitBounded ==
    \A c \in Callers :
        calls[c].waitTime + calls[c].delay <= REQUEST_WINDOW + 100

\* ---------------------------------------------------------------------
\* C10.  The penalties have stopped and the clock is within one default ban
\* of their end: every state from which the caller must still be admitted.
AfterPenalties ==
    /\ ~PenaltyPhase
    /\ now <= StartTime + PenaltyUntil + DEFAULT_BAN_MS

AdmittedC1 == last.c = "c1" /\ last.res = "record"

\* The timestamps a recording step starts from: the evicted window when the
\* call records at once, the window as it is when it records after a sleep.
WindowBeforeRecord ==
    IF last'.op = "call" THEN FilterWindow(requestTimestamps, now)
    ELSE requestTimestamps

RollDue == now - lastStatsLogTime > STATS_LOG_INTERVAL

\* C10 (as stated): once the penalties have stopped, the caller that keeps
\* calling is eventually admitted, and an admitted call appends one timestamp
\* and leaves the counter of its endpoint one higher.
C10_AdmittedAndCounted ==
    /\ AfterPenalties ~> AdmittedC1
    /\ [][last'.res = "record"
            => /\ requestTimestamps' = Append(WindowBeforeRecord, now)
               /\ requestStats'[last'.e] = requestStats[last'.e] + 1]_vars

\* C10 (amended): once the penalties have stopped, the caller that keeps
\* calling is eventually admitted; an admitted call appends one timestamp and
\* adds one to the counter of its endpoint, after which, when more than
\* STATS_LOG_INTERVAL has passed since the last roll (as at the first
\* admitted call), all counters are cleared and the roll time is set.
C10_AdmittedCountedOrRolled ==
    /\ AfterPenalties ~> AdmittedC1
    /\ [][last'.res = "record"
            => /\ requestTimestamps' = Append(WindowBeforeRecord, now)
               /\ lastRequestTime' = now
               /\ IF RollDue
                  THEN requestStats' = EmptyStats /\ lastStatsLogTime' = now
                  ELSE /\ requestStats' =
                            [requestStats EXCEPT ![last'.e] = @ + 1]
                       /\ lastStatsLogTime' = lastStatsLogTime]_vars

\* After the penalties stopped the caller was admitted at the instant the
\* 429 backoff ran out, and the counter of its endpoint went up.
C10_Witness ==
    /\ AdmittedC1
    /\ AfterPenalties
    /\ backoffUntil = now
    /\ requestStats[last.e] > 0

\* =============================================== Part 2: the registry
\* The variables of the coordinator of Part 1.
coordVars == <<now, rlVars, calls, last, until429>>

\* History record of an operation that caller c performs on the manager it
\* holds for exchange e.
ManagerOp(name, c) ==
    [Op(name) EXCEPT !.c = c, !.e = held[c].exchangeName]

\* A getInstance that constructs a manager at every call.
getInstanceAlwaysNew(c, config) ==
    LET key == config.exchangeName
        id == Len(managers) + 1
    IN  /\ held[c].pc = "idle"
        /\ Len(managers) < MaxManagers
        /\ managers' = Append(managers, NewManager(config))
        /\ instances' = [instances EXCEPT ![key] = id]
        /\ held' = [held EXCEPT ![c].mgr = id, ![c].exchangeName = key]
        /\ last' = [Op("getInstance") EXCEPT !.c = c, !.e = key]
        /\ UNCHANGED <<now, rlVars, calls, until429, managerOps, reconVars, serviceVars>>

\* static getInstance(config): the manager registered under
\* config.exchangeName, constructed from this config if there is none yet.
\* A caller is one flow of control: while its waitForRateLimit is suspended
\* it makes no other call.
getInstance(c, config) ==
    LET key == config.exchangeName
        has == instances[key] # 0
        id == IF has THEN instances[key] ELSE Len(managers) + 1
    IN  /\ held[c].pc = "idle"
        /\ has \/ Len(managers) < MaxManagers
        /\ managers' = IF has THEN managers
                       ELSE Append(managers, NewManager(config))
        /\ instances' = [instances EXCEPT ![key] = id]
        /\ held' = [held EXCEPT ![c].mgr = id, ![c].exchangeName = key]
        /\ last' = [Op("getInstance") EXCEPT !.c = c, !.e = key]
        /\ UNCHANGED <<now, rlVars, calls, until429, managerOps, reconVars, serviceVars>>

\* shouldBlockRequest() of manager m at time t: the verdict and the manager
\* as the check leaves it.
ManagerBlockCheck(m, t) ==
    IF m.ipBannedUntil > t
    THEN [block |-> TRUE, m |-> m]
    ELSE
      LET m1 == IF m.ipBannedUntil > 0 /\ m.ipBannedUntil <= t
                THEN [m EXCEPT !.ipBannedUntil = 0,
                               !.consecutiveFailures = 0,
                               !.circuitBreakerOpenUntil = 0,
                               !.backoffUntil = 0]
                ELSE m
      IN  IF m1.backoffUntil > t THEN [block |-> TRUE, m |-> m1]
          ELSE IF m1.circuitBreakerOpenUntil > t THEN [block |-> TRUE, m |-> m1]
          ELSE IF m1.circuitBreakerOpenUntil > 0
                    /\ m1.circuitBreakerOpenUntil <= t
          THEN [block |-> FALSE,
                m |-> [m1 EXCEPT !.consecutiveFailures = 0,
                                 !.circuitBreakerOpenUntil = 0]]
          ELSE [block |-> FALSE, m |-> m1]

\* Steps 5 and 6 of waitForRateLimit on manager id: the request is recorded
\* and the call of caller c returns.
ManagerRecord(c, id, m) ==
    /\ managers' = [managers EXCEPT ![id] =
                      [m EXCEPT !.requestTimestamps = Append(@, now),
                                !.lastRequestTime = now]]
    /\ held' = [held EXCEPT ![c].pc = "idle", ![c].callNow = 0, ![c].wakeAt = 0]

\* Step 4 of waitForRateLimit on manager id: the minimum-delay wait, or on to
\* step 5.  callNow is the `now` of line 311.
ManagerMinDelay(c, id, m, callNow) ==
    LET timeSinceLastRequest == callNow - m.lastRequestTime
    IN  IF timeSinceLastRequest < minRequestDelay
        THEN /\ managers' = [managers EXCEPT ![id] = m]
             /\ held' = [held EXCEPT
                            ![c].pc = "minDelay", ![c].callNow = callNow,
                            ![c].wakeAt = now + (minRequestDelay - timeSinceLastRequest)]
        ELSE ManagerRecord(c, id, m)

\* waitForRateLimit() on the manager that caller c holds, from entry to the
\* first await, to the throw or to the end.
ManagerWaitForRateLimit(c) ==
    LET id == held[c].mgr
        b == ManagerBlockCheck(managers[id], now)
        ts == FilterWindow(b.m.requestTimestamps, now)
        m2 == [b.m EXCEPT !.requestTimestamps = ts]
        waitTime == RateWaitTime(now, ts[1])
    IN  /\ id # 0
        /\ held[c].pc = "idle"
        /\ managerOps < MaxManagerOps
        /\ managerOps' = managerOps + 1
        /\ IF b.block
           THEN /\ managers' = [managers EXCEPT ![id] = b.m]
                /\ last' = [ManagerOp("managerWait", c) EXCEPT !.res = "reject"]
                /\ UNCHANGED held
           ELSE IF Len(ts) >= m2.maxRequestsPerMinute /\ waitTime > 0
           THEN /\ managers' = [managers EXCEPT ![id] = m2]
                /\ held' = [held EXCEPT ![c].pc = "rateWait", ![c].callNow = now,
                                        ![c].wakeAt = now + waitTime]
                /\ last' = [ManagerOp("managerWait", c) EXCEPT !.res = "rateWait"]
           ELSE /\ ManagerMinDelay(c, id, m2, now)
                /\ last' = [ManagerOp("managerWait", c) EXCEPT
                              !.res = held'[c].pc]
        /\ UNCHANGED <<now, rlVars, calls, until429, instances, reconVars, serviceVars>>

\* A setTimeout of the call of caller c has fired: after the rate wait the
\* call goes on at step 4, after the minimum-delay wait at step 5.
ManagerWake(c) ==
    LET id == held[c].mgr
    IN  /\ held[c].pc \in {"rateWait", "minDelay"}
        /\ now >= held[c].wakeAt
        /\ IF held[c].pc = "rateWait"
           THEN ManagerMinDelay(c, id, managers[id], held[c].callNow)
           ELSE ManagerRecord(c, id, managers[id])
        /\ last' = [ManagerOp("managerWake", c) EXCEPT !.res = held'[c].pc]
        /\ UNCHANGED <<now, rlVars, calls, until429, instances, managerOps, reconVars, serviceVars>>

\* An operation without awaits on the manager that caller c holds.
ManagerCall(c, name, m) ==
    /\ held[c].mgr # 0
    /\ held[c].pc = "idle"
    /\ managerOps < MaxManagerOps
    /\ managerOps' = managerOps + 1
    /\ managers' = [managers EXCEPT ![held[c].mgr] = m]
    /\ last' = ManagerOp(name, c)
    /\ UNCHANGED <<now, rlVars, calls, until429, instances, held, reconVars, serviceVars>>

\* recordFailure() on the manager that caller c holds.
ManagerRecordFailure(c) ==
    LET m == managers[held[c].mgr]
        n == m.consecutiveFailures + 1
    IN  /\ held[c].mgr # 0
        /\ m.consecutiveFailures < MaxFailures
        /\ ManagerCall(c, "managerRecordFailure",
              [m EXCEPT !.consecutiveFailures = n,
                        !.circuitBreakerOpenUntil =
                            IF n >= circuitBreakerThreshold
                            THEN now + circuitBreakerTimeout ELSE @])

\* recordSuccess() on the manager that caller c holds.
ManagerRecordSuccess(c) ==
    /\ held[c].mgr # 0
    /\ ManagerCall(c, "managerRecordSuccess",
          [managers[held[c].mgr] EXCEPT !.consecutiveFailures = 0])

\* handle429Warning() on the manager that caller c holds.
ManagerHandle429(c) ==
    /\ held[c].mgr # 0
    /\ ManagerCall(c, "managerHandle429",
          [managers[held[c].mgr] EXCEPT
              !.backoffUntil = now + BACKOFF_429_DURATION])

\* handle418Ban(banDurationSeconds) on the manager that caller c holds.
ManagerHandle418(c, banDurationSeconds) ==
    LET duration == IF banDurationSeconds # 0 THEN banDurationSeconds * 1000
                    ELSE DEFAULT_BAN_MS
    IN  /\ held[c].mgr # 0
        /\ ManagerCall(c, "managerHandle418",
              [managers[held[c].mgr] EXCEPT
                  !.ipBannedUntil = now + duration,
                  !.circuitBreakerOpenUntil = now + duration,
                  !.consecutiveFailures = circuitBreakerThreshold])

\* reset() on the manager that caller c holds.
ManagerReset(c) ==
    /\ held[c].mgr # 0
    /\ ManagerCall(c, "managerReset",
          [managers[held[c].mgr] EXCEPT
              !.consecutiveFailures = 0, !.circuitBreakerOpenUntil = 0,
              !.backoffUntil = 0, !.ipBannedUntil = 0,
              !.requestTimestamps = <<>>])

\* Date.now() advances to a later instant of the registry's clock.
ManagerTick ==
    /\ \E d \in RegistryClock :
          /\ StartTime + d > now
          /\ now' = StartTime + d
    /\ last' = Op("tick")
    /\ UNCHANGED <<rlVars, calls, until429, instVars, reconVars, serviceVars>>

NextInstances ==
    \/ \E c \in Callers, config \in InstanceConfigs : getInstance(c, config)
    \/ \E c \in Callers : ManagerWaitForRateLimit(c)
    \/ \E c \in Callers : ManagerWake(c)
    \/ \E c \in Callers : ManagerRecordFailure(c)
    \/ \E c \in Callers : ManagerRecordSuccess(c)
    \/ \E c \in Callers : ManagerHandle429(c)
    \/ \E c \in Callers : ManagerHandle418(c, 10)
    \/ \E c \in Callers : ManagerReset(c)
    \/ ManagerTick

SpecInstances == Init /\ [][NextInstances]_vars

\* ---------------------------------------------------------------------
\* C11: getInstance returns one and the same manager for every call with the
\* same exchangeName, so callers of one exchange work on the same
\* requestTimestamps, backoff deadline and failure counter; managers of
\* different exchange names are different objects, and an operation on the
\* manager of one exchange leaves the manager of every other exchange as it was.
C11_OneManagerPerExchange ==
    [][/\ \A c, d \in Callers :
            (held'[c].mgr # 0 /\ held'[d].mgr # 0)
              => (held'[c].exchangeName = held'[d].exchangeName
                    <=> held'[c].mgr = held'[d].mgr)
       /\ \A c \in Callers :
            held'[c].mgr # 0
              => /\ held'[c].mgr = instances'[held'[c].exchangeName]
                 /\ managers'[held'[c].mgr].exchangeName = held'[c].exchangeName
       /\ \A n \in ExchangeNames :
            (instances[n] # 0 /\ n # last'.e)
              => /\ instances'[n] = instances[n]
                 /\ managers'[instances[n]] = managers[instances[n]]]_vars

\* Both callers hold the manager of "gate", which has failures and admitted
\* requests on record, while the manager of "binance" exists and has none.
C11_Witness ==
    /\ held["c1"].exchangeName = "gate"
    /\ held["c2"].exchangeName = "gate"
    /\ held["c1"].mgr = held["c2"].mgr
    /\ managers[held["c1"].mgr].consecutiveFailures > 0
    /\ managers[held["c1"].mgr].requestTimestamps # <<>>
    /\ instances["binance"] # 0
    /\ managers[instances["binance"]].consecutiveFailures = 0
    /\ managers[instances["binance"]].requestTimestamps = <<>>

\* ============================================= Part 3: the reconciler
\* InconsistentStateResolver (src/src/scheduler/inconsistentStateResolver.ts).
\* resolveInconsistentStates is an async function: a run is a sequence of
\* steps, one per awaited store statement or exchange call, and runs started
\* by the timer may interleave with a run that is still in progress.  All
\* runs use the one connection dbClient: a statement issued while a
\* transaction is open on it runs inside that transaction, BEGIN inside a
\* transaction and COMMIT or ROLLBACK outside one are errors of the engine.
MaxTimers == 2

Abs(x) == IF x < 0 THEN -x ELSE x

RECURSIVE Ascending(_)
Ascending(S) ==
    IF S = {} THEN <<>>
    ELSE LET m == SetMin(S) IN <<m>> \o Ascending(S \ {m})

\* SELECT * FROM inconsistent_states WHERE resolved = 0 ORDER BY created_at ASC
Unresolved(d) ==
    Ascending({i \in DOMAIN d.inconsistent_states :
                   d.inconsistent_states[i].resolved = 0})

\* A write statement on dbClient: inside an open transaction it stays
\* uncommitted, outside it is committed at once.
Exec(d) ==
    /\ db' = d
    /\ committed' = IF inTxn THEN committed ELSE d

\* DELETE FROM positions WHERE symbol = ? AND side = ?
DeletePosition(d, row) ==
    [d EXCEPT !.positions =
        {q \in @ : ~(q.symbol = row.symbol /\ q.side = row.side)}]

\* UPDATE price_orders SET status = 'cancelled' WHERE symbol, side, active
CancelOrders(d, row) ==
    [d EXCEPT !.price_orders =
        {IF o.symbol = row.symbol /\ o.side = row.side /\ o.status = "active"
         THEN [o EXCEPT !.status = "cancelled"] ELSE o : o \in @}]

\* A repair that inserts no close trade.
InsertNoTrade(d, row) == d

\* INSERT INTO trades (...) VALUES (exchange_order_id, symbol, side, 'close', ...)
InsertTrade(d, row) ==
    [d EXCEPT !.trades =
        Append(@, [order_id |-> row.exchange_order_id, symbol |-> row.symbol,
                   side |-> row.side, type |-> "close", from |-> row.id])]

\* INSERT INTO position_close_events (...) VALUES (..., 'system_recovered', ...)
InsertEvent(d, row) ==
    [d EXCEPT !.position_close_events =
        Append(@, [order_id |-> row.exchange_order_id, symbol |-> row.symbol,
                   side |-> row.side, close_reason |-> "system_recovered",
                   from |-> row.id])]

\* UPDATE inconsistent_states SET resolved = 1, resolved_at, resolved_by = 'auto'
\* WHERE id = ?   (resolved_at: the number of the run that marks the row)
MarkResolved(d, id, at) ==
    [d EXCEPT !.inconsistent_states[id] =
        [@ EXCEPT !.resolved = 1, !.resolved_by = "auto", !.resolved_at = at]]

\* A ROLLBACK that leaves the uncommitted writes in place.
AfterRollbackKeeps(d, c) == d

\* The connection's view of the store after ROLLBACK.
AfterRollback(d, c) == c

\* ------------------------------------------------ ResolveFailureTracker
trackerRecordFailure(t, id) ==
    [consecutiveFailures |-> t.consecutiveFailures + 1,
     failedStates |-> [t.failedStates EXCEPT ![id] = @ + 1]]

trackerRecordSuccess(t, id) ==
    [consecutiveFailures |-> 0,
     failedStates |-> [t.failedStates EXCEPT ![id] = 0]]

\* A row alert one failure early.
RowAlertDueEarly(count) == count >= ROW_ALERT_THRESHOLD - 1

\* if (count >= 5)
RowAlertDue(count) == count >= ROW_ALERT_THRESHOLD

Alert(level, stateId, failureCount, affectedStates) ==
    [level |-> level, stateId |-> stateId, failureCount |-> failureCount,
     affectedStates |-> affectedStates]

\* The alert recordFailure sends for row id, t being the tracker after the count.
RowAlerts(t, id) ==
    IF RowAlertDue(t.failedStates[id])
    THEN {Alert("ERROR", id, t.failedStates[id], 0)}
    ELSE {}

\* checkOverallFailures(): the alert it sends.
checkOverallFailures(t) ==
    IF t.consecutiveFailures >= OVERALL_ALERT_THRESHOLD
    THEN {Alert("CRITICAL", 0, t.consecutiveFailures,
                Cardinality({i \in RowIds : t.failedStates[i] > 0}))}
    ELSE {}

\* resolveState with a case for every operation.
HasCaseForAll(operation) == TRUE

\* resolveState(state): an operation without a case returns false at once.
HasCase(operation) == operation \in {"close_position", "price_order_triggered"}

\* The for loop of resolveInconsistentStates from row index i on, up to the
\* first row whose resolveState awaits the exchange, or to the end of the
\* loop and checkOverallFailures.  t: the tracker, al: alerts sent so far.
RECURSIVE Continue(_, _, _, _)
Continue(rows, i, t, al) ==
    IF i > Len(rows)
    THEN [done |-> TRUE, i |-> 0, tracker |-> t,
          alerts |-> al \cup checkOverallFailures(t), failed |-> {}]
    ELSE IF ~HasCase(db.inconsistent_states[rows[i]].operation)
    THEN LET t1 == trackerRecordFailure(t, rows[i])
             r == Continue(rows, i + 1, t1, al \cup RowAlerts(t1, rows[i]))
         IN  [r EXCEPT !.failed = @ \cup {rows[i]}]
    ELSE [done |-> FALSE, i |-> i, tracker |-> t, alerts |-> al, failed |-> {}]

\* start() sets the timer when its first run has ended.
TimerAfter(origin, done) ==
    IF done /\ origin = "start"
    THEN /\ resolveInterval' = TRUE
         /\ activeTimers' = activeTimers + 1
    ELSE UNCHANGED <<resolveInterval, activeTimers>>

\* The run in slot p, with frame fr, goes on with the row after fr.i.
Proceed(p, fr, t, al, rec) ==
    LET c == Continue(fr.rows, fr.i + 1, t, al)
    IN  /\ failureTracker' = c.tracker
        /\ pass' = [pass EXCEPT ![p] =
                      IF c.done THEN IdlePass
                      ELSE [fr EXCEPT !.pc = "exchange", !.i = c.i]]
        /\ step' = [rec EXCEPT !.failed = @ \cup c.failed,
                               !.alerts = c.alerts, !.ended = c.done]
        /\ TimerAfter(fr.origin, c.done)

\* The handling of the current row of slot p ends: lines 156-172.
FinishRow(p, ok, rec) ==
    LET fr == pass[p]
        id == fr.rows[fr.i]
        t1 == IF ok THEN trackerRecordSuccess(failureTracker, id)
              ELSE trackerRecordFailure(failureTracker, id)
        al == IF ok THEN {} ELSE RowAlerts(t1, id)
    IN  Proceed(p, fr, t1, al,
                [rec EXCEPT !.failed = IF ok THEN {} ELSE {id},
                            !.resolved = IF ok THEN id ELSE 0])

\* The row that slot p is working on.
CurrentRow(p) == db.inconsistent_states[pass[p].rows[pass[p].i]]

\* ------------------------------------------------- reconciler: actions
\* The slot a new run takes.
FreeSlot == IF pass["p1"].pc = "idle" THEN "p1" ELSE "p2"

\* resolveInconsistentStates() from its call to its first await: the
\* SELECT of line 137 is issued and the run is suspended.
BeginPass(origin, maxPasses) ==
    LET p == FreeSlot
    IN  /\ pass[p].pc = "idle"
        /\ passCount < maxPasses
        /\ passCount' = passCount + 1
        /\ pass' = [pass EXCEPT ![p] =
                      [pc |-> "select", rows |-> <<>>, i |-> 0,
                       n |-> passCount + 1, origin |-> origin]]
        /\ step' = StepRec("call", p, 0, TRUE, origin)
        /\ UNCHANGED <<db, committed, inTxn, exchange, failureTracker,
                       resolveInterval, activeTimers, faults,
                       coordVars, instVars, serviceVars>>

\* The SELECT answers: lines 137-154.  A SELECT that throws, and an empty
\* result, end the run before checkOverallFailures; otherwise the loop runs
\* to the first row whose resolveState awaits the exchange.
SelectReturns(p) ==
    LET rows == Unresolved(db)
        fr == pass[p]
    IN  /\ fr.pc = "select"
        /\ UNCHANGED <<db, committed, inTxn, exchange, passCount, coordVars, instVars, serviceVars>>
        /\ \/ /\ faults > 0
              /\ faults' = faults - 1
              /\ step' = [StepRec("select", p, 0, FALSE, "throws")
                            EXCEPT !.ended = TRUE]
              /\ pass' = [pass EXCEPT ![p] = IdlePass]
              /\ TimerAfter(fr.origin, TRUE)
              /\ UNCHANGED failureTracker
           \/ /\ UNCHANGED faults
              /\ IF rows = <<>>
                 THEN /\ step' = [StepRec("select", p, 0, TRUE, "empty")
                                    EXCEPT !.ended = TRUE]
                      /\ pass' = [pass EXCEPT ![p] = IdlePass]
                      /\ TimerAfter(fr.origin, TRUE)
                      /\ UNCHANGED failureTracker
                 ELSE Proceed(p, [fr EXCEPT !.rows = rows],
                              failureTracker, {},
                              StepRec("select", p, 0, TRUE, ""))

\* start(): returns at once when the timer is set; else calls the first run
\* and awaits it.  The timer is set when that run has ended (TimerAfter).
Start(maxPasses) ==
    /\ ~resolveInterval
    /\ activeTimers
         + Cardinality({p \in Passes : pass[p].pc # "idle" /\ pass[p].origin = "start"})
           < MaxTimers
    /\ BeginPass("start", maxPasses)

\* The setInterval callback: it starts a run whether or not one is in progress.
TimerTick(maxPasses) ==
    /\ activeTimers > 0
    /\ BeginPass("tick", maxPasses)

\* stop()
Stop ==
    /\ resolveInterval
    /\ resolveInterval' = FALSE
    /\ activeTimers' = activeTimers - 1
    /\ step' = StepRec("stop", "", 0, TRUE, "")
    /\ UNCHANGED <<db, committed, inTxn, exchange, failureTracker, pass,
                   passCount, faults, coordVars, instVars, serviceVars>>

\* resolveClosePosition, lines 215-234: getPositions answers; getMyTrades is
\* called when no position is left on the contract.
ReadExchange(p) ==
    LET row == CurrentRow(p)
        contract == normalizeContract(row.symbol)
        positionExists ==
            \E sd \in Sides :
                /\ normalizeContract(Symbol) = contract
                /\ Abs(exchange.positions[sd]) > 0
    IN  /\ pass[p].pc = "exchange"
        /\ UNCHANGED <<db, committed, inTxn, exchange, passCount, coordVars, instVars, serviceVars>>
        /\ \/ /\ faults > 0
              /\ faults' = faults - 1
              /\ FinishRow(p, FALSE, StepRec("exchange", p, row.id, FALSE, "throws"))
           \/ /\ UNCHANGED faults
              /\ IF positionExists
                 THEN FinishRow(p, FALSE,
                          StepRec("exchange", p, row.id, FALSE, "positionExists"))
                 ELSE /\ pass' = [pass EXCEPT ![p].pc = "trades"]
                      /\ step' = StepRec("exchange", p, row.id, TRUE, "")
                      /\ UNCHANGED <<failureTracker, resolveInterval, activeTimers>>

\* Lines 237-247: getMyTrades answers; the fill of exchange_order_id is
\* looked for.
ReadTrades(p) ==
    LET row == CurrentRow(p)
        closeTrade == row.exchange_order_id \in exchange.fills
    IN  /\ pass[p].pc = "trades"
        /\ UNCHANGED <<db, committed, inTxn, exchange, passCount, coordVars, instVars, serviceVars>>
        /\ \/ /\ faults > 0
              /\ faults' = faults - 1
              /\ FinishRow(p, FALSE, StepRec("trades", p, row.id, FALSE, "throws"))
           \/ /\ UNCHANGED faults
              /\ IF ~closeTrade
                 THEN FinishRow(p, FALSE,
                          StepRec("trades", p, row.id, FALSE, "noFill"))
                 ELSE /\ pass' = [pass EXCEPT ![p].pc = "openTrade"]
                      /\ step' = StepRec("trades", p, row.id, TRUE, "")
                      /\ UNCHANGED <<failureTracker, resolveInterval, activeTimers>>

\* Lines 250-260: SELECT the latest open trade of (symbol, side).
ReadOpenTrade(p) ==
    LET row == CurrentRow(p)
        found == \E k \in DOMAIN db.trades :
                     /\ db.trades[k].symbol = row.symbol
                     /\ db.trades[k].side = row.side
                     /\ db.trades[k].type = "open"
    IN  /\ pass[p].pc = "openTrade"
        /\ UNCHANGED <<db, committed, inTxn, exchange, passCount, coordVars, instVars, serviceVars>>
        /\ \/ /\ faults > 0
              /\ faults' = faults - 1
              /\ FinishRow(p, FALSE, StepRec("openTrade", p, row.id, FALSE, "throws"))
           \/ /\ UNCHANGED faults
              /\ IF ~found
                 THEN FinishRow(p, FALSE,
                          StepRec("openTrade", p, row.id, FALSE, "noOpenTrade"))
                 ELSE /\ pass' = [pass EXCEPT ![p].pc = "begin"]
                      /\ step' = StepRec("openTrade", p, row.id, TRUE, "")
                      /\ UNCHANGED <<failureTracker, resolveInterval, activeTimers>>

\* Line 306: BEGIN TRANSACTION.  It is outside the inner try: when it throws,
\* the outer catch returns false and no ROLLBACK is issued.
Begin(p) ==
    LET row == CurrentRow(p)
    IN  /\ pass[p].pc = "begin"
        /\ UNCHANGED <<db, committed, exchange, passCount, coordVars, instVars, serviceVars>>
        /\ \/ /\ faults > 0
              /\ faults' = faults - 1
              /\ UNCHANGED inTxn
              /\ FinishRow(p, FALSE, StepRec("begin", p, row.id, FALSE, "throws"))
           \/ /\ UNCHANGED faults
              /\ IF inTxn
                 THEN /\ UNCHANGED inTxn
                      /\ FinishRow(p, FALSE,
                             StepRec("begin", p, row.id, FALSE, "inTransaction"))
                 ELSE /\ inTxn' = TRUE
                      /\ pass' = [pass EXCEPT ![p].pc = "delete"]
                      /\ step' = StepRec("begin", p, row.id, TRUE, "")
                      /\ UNCHANGED <<failureTracker, resolveInterval, activeTimers>>

\* One write of the inner try (lines 310-346): when it throws, the catch
\* block is entered.
TxnWrite(p, pc, nextPc, d) ==
    /\ pass[p].pc = pc
    /\ UNCHANGED <<inTxn, exchange, failureTracker, resolveInterval,
                   activeTimers, passCount, coordVars, instVars, serviceVars>>
    /\ \/ /\ faults > 0
          /\ faults' = faults - 1
          /\ pass' = [pass EXCEPT ![p].pc = "rollback"]
          /\ step' = StepRec(pc, p, CurrentRow(p).id, FALSE, "throws")
          /\ UNCHANGED <<db, committed>>
       \/ /\ UNCHANGED faults
          /\ Exec(d)
          /\ pass' = [pass EXCEPT ![p].pc = nextPc]
          /\ step' = StepRec(pc, p, CurrentRow(p).id, TRUE, "")

DeleteStep(p) == TxnWrite(p, "delete", "cancel", DeletePosition(db, CurrentRow(p)))
CancelStep(p) == TxnWrite(p, "cancel", "insertTrade", CancelOrders(db, CurrentRow(p)))
InsertTradeStep(p) ==
    TxnWrite(p, "insertTrade", "insertEvent", InsertTrade(db, CurrentRow(p)))
InsertEventStep(p) ==
    TxnWrite(p, "insertEvent", "commit", InsertEvent(db, CurrentRow(p)))

\* Line 348: COMMIT; resolveClosePosition returns true and the UPDATE of
\* line 158 is issued next.
Commit(p) ==
    /\ pass[p].pc = "commit"
    /\ UNCHANGED <<db, exchange, failureTracker, resolveInterval,
                   activeTimers, passCount, coordVars, instVars, serviceVars>>
    /\ \/ /\ faults > 0
          /\ faults' = faults - 1
          /\ pass' = [pass EXCEPT ![p].pc = "rollback"]
          /\ step' = StepRec("commit", p, CurrentRow(p).id, FALSE, "throws")
          /\ UNCHANGED <<committed, inTxn>>
       \/ /\ UNCHANGED faults
          /\ IF inTxn
             THEN /\ committed' = db
                  /\ inTxn' = FALSE
                  /\ pass' = [pass EXCEPT ![p].pc = "mark"]
                  /\ step' = StepRec("commit", p, CurrentRow(p).id, TRUE, "")
             ELSE /\ pass' = [pass EXCEPT ![p].pc = "rollback"]
                  /\ step' = StepRec("commit", p, CurrentRow(p).id, FALSE,
                                     "noTransaction")
                  /\ UNCHANGED <<committed, inTxn>>

\* Line 353: ROLLBACK in the catch block, then return false.  A ROLLBACK that
\* throws leaves the catch block by exception; the outer catch returns false.
Rollback(p) ==
    LET row == CurrentRow(p)
    IN  /\ pass[p].pc = "rollback"
        /\ UNCHANGED <<committed, exchange, passCount, coordVars, instVars, serviceVars>>
        /\ \/ /\ faults > 0
              /\ faults' = faults - 1
              /\ UNCHANGED <<db, inTxn>>
              /\ FinishRow(p, FALSE, StepRec("rollback", p, row.id, FALSE, "throws"))
           \/ /\ UNCHANGED faults
              /\ IF inTxn
                 THEN /\ db' = AfterRollback(db, committed)
                      /\ inTxn' = FALSE
                      /\ FinishRow(p, FALSE,
                             StepRec("rollback", p, row.id, TRUE, ""))
                 ELSE /\ UNCHANGED <<db, inTxn>>
                      /\ FinishRow(p, FALSE,
                             StepRec("rollback", p, row.id, FALSE, "noTransaction"))

\* Lines 158-165: mark the row resolved, then recordSuccess; when the UPDATE
\* throws, the catch of line 169 records a failure.
Mark(p) ==
    LET row == CurrentRow(p)
    IN  /\ pass[p].pc = "mark"
        /\ UNCHANGED <<inTxn, exchange, passCount, coordVars, instVars, serviceVars>>
        /\ \/ /\ faults > 0
              /\ faults' = faults - 1
              /\ UNCHANGED <<db, committed>>
              /\ FinishRow(p, FALSE, StepRec("mark", p, row.id, FALSE, "throws"))
           \/ /\ UNCHANGED faults
              /\ Exec(MarkResolved(db, row.id, pass[p].n))
              /\ FinishRow(p, TRUE, StepRec("mark", p, row.id, TRUE, ""))

\* The exchange closes the position of one side (a stop fires, a liquidation).
ExchangeCloses(sd) ==
    /\ exchange.positions[sd] # 0
    /\ exchange' = [exchange EXCEPT !.positions[sd] = 0]
    /\ step' = StepRec("exchangeCloses", "", 0, TRUE, "")
    /\ UNCHANGED <<db, committed, inTxn, failureTracker, pass, resolveInterval,
                   activeTimers, passCount, faults, coordVars, instVars, serviceVars>>

\* The steps of the runs in progress.
PassStep ==
    \E p \in Passes :
        \/ SelectReturns(p)
        \/ ReadExchange(p)
        \/ ReadTrades(p)
        \/ ReadOpenTrade(p)
        \/ Begin(p)
        \/ DeleteStep(p)
        \/ CancelStep(p)
        \/ InsertTradeStep(p)
        \/ InsertEventStep(p)
        \/ Commit(p)
        \/ Rollback(p)
        \/ Mark(p)

\* The reconciler over a store with unresolved rows: a few passes, any of
\* whose statements may fail.
NextRecon ==
    \/ Start(MaxPasses)
    \/ TimerTick(MaxPasses)
    \/ Stop
    \/ PassStep

InitReconciler ==
    InitCoordinator /\ InitInstances /\ InitRecon /\ InitServices

SpecRecon == InitReconciler /\ [][NextRecon]_vars

\* The reconciler over rows that keep failing: many passes, one after the
\* other, so that the failure counters reach the alert thresholds; the
\* exchange may close a position in between, after which the row of that
\* side can be repaired.
InitAlerts ==
    /\ InitResolver
    /\ \E rows \in {<<StateRow(1, "close_position", "long", "o1")>>,
                    <<StateRow(1, "open_position", "long", "o1")>>,
                    <<StateRow(1, "close_position", "long", "o1"),
                      StateRow(2, "close_position", "short", "o2")>>} :
          db = Store({"long", "short"}, {"long", "short"}, rows)
    /\ committed = db
    /\ \E l \in {0, 1}, fl \in {{"o2"}, {"o1", "o2"}} :
          exchange = [positions |-> [sd \in Sides |-> IF sd = "long" THEN l ELSE 0],
                      fills |-> fl]
    /\ faults = 1

\* A timer tick that finds the previous run ended (the period is longer than
\* a run).
TickAfterRun(maxPasses) ==
    /\ \A p \in Passes : pass[p].pc = "idle"
    /\ TimerTick(maxPasses)

NextAlerts ==
    \/ (passCount = 0 /\ Start(AlertPasses))
    \/ TickAfterRun(AlertPasses)
    \/ PassStep
    \/ \E sd \in Sides : ExchangeCloses(sd)

InitAlerting ==
    InitCoordinator /\ InitInstances /\ InitAlerts /\ InitServices

SpecAlerts == InitAlerting /\ [][NextAlerts]_vars

\* ===================================================== claims, part 3
\* The four tables a repair writes.
RepairTables(d) ==
    <<d.positions, d.price_orders, d.trades, d.position_close_events>>

\* The store after the four writes of the repair of row.
Repaired(d, row) ==
    InsertEvent(InsertTrade(CancelOrders(DeletePosition(d, row), row), row), row)

TxnStatements == {"delete", "cancel", "insertTrade", "insertEvent", "commit"}

\* ---------------------------------------------------------------------
\* C12: the repair of one inconsistent_states row is atomic.  In the
\* committed store the four tables of the repair change only by all four
\* writes of one row's repair at once; while a transaction is open nothing
\* is committed before COMMIT; a write or COMMIT that fails commits nothing
\* and leads to ROLLBACK; after ROLLBACK the connection sees the committed
\* store again, nothing has been committed, and the run counts the row as
\* failed without marking it.
C12_RepairIsAtomic ==
    [][/\ \/ RepairTables(committed') = RepairTables(committed)
          \/ \E i \in DOMAIN committed.inconsistent_states :
                RepairTables(committed') =
                    RepairTables(Repaired(committed, committed.inconsistent_states[i]))
       /\ (inTxn /\ step'.op # "commit") => committed' = committed
       /\ (step'.op \in TxnStatements /\ ~step'.ok)
            => /\ committed' = committed
               /\ pass'[step'.p].pc = "rollback"
       /\ (step'.op = "rollback" /\ step'.ok)
            => /\ db' = committed
               /\ committed' = committed
               /\ ~inTxn'
               /\ step'.row \in step'.failed
               /\ step'.resolved = 0]_vars

\* A repair whose writes had begun has been rolled back: the position, the
\* active trigger and the unresolved row are all still there, and no close
\* trade is.
C12_Witness ==
    /\ step.op = "rollback"
    /\ step.ok
    /\ step.row = 1
    /\ db = committed
    /\ [symbol |-> Symbol, side |-> "long"] \in committed.positions
    /\ committed.inconsistent_states[1].resolved = 0
    /\ \A k \in DOMAIN committed.trades : committed.trades[k].type = "open"
    /\ failureTracker.failedStates[1] = 1

\* The close trades, and the close events, that the repair of row i inserted.
CloseTradesOf(d, i) == {k \in DOMAIN d.trades : d.trades[k].from = i}
CloseEventsOf(d, i) ==
    {k \in DOMAIN d.position_close_events : d.position_close_events[k].from = i}

\* ---------------------------------------------------------------------
\* C13: over any sequence of passes each inconsistent_states row gives rise
\* to at most one synthesized close trade and at most one close event in the
\* committed store.
C13_AtMostOneClosePerRow ==
    \A i \in RowIds :
        /\ Cardinality(CloseTradesOf(committed, i)) <= 1
        /\ Cardinality(CloseEventsOf(committed, i)) <= 1

\* The store holds an open trade of the row's (symbol, side).
HasOpenTrade(d, row) ==
    \E k \in DOMAIN d.trades :
        /\ d.trades[k].symbol = row.symbol
        /\ d.trades[k].side = row.side
        /\ d.trades[k].type = "open"

\* ---------------------------------------------------------------------
\* C14: when the exchange answers for an unresolved row whose open trade is
\* in the store, shows no position for the row's (symbol, side) and lists a
\* fill with the row's exchange_order_id, the repair goes on to synthesize
\* the close instead of giving the row up, whatever the exchange holds on
\* the other side of the contract: the answer of getPositions leads to
\* getMyTrades, and the answer of getMyTrades to the store phase.
C14_ClosedSideIsRepaired ==
    [][(/\ step'.op \in {"exchange", "trades"}
        /\ step'.reason # "throws"
        /\ db.inconsistent_states[step'.row].resolved = 0
        /\ HasOpenTrade(db, db.inconsistent_states[step'.row])
        /\ exchange.positions[db.inconsistent_states[step'.row].side] = 0
        /\ db.inconsistent_states[step'.row].exchange_order_id \in exchange.fills)
         => /\ step'.ok
            /\ pass'[step'.p].pc =
                  (IF step'.op = "exchange" THEN "trades" ELSE "openTrade")]_vars

\* In store d every row marked resolved by the reconciler has its close
\* trade, and its position row is gone.
ResolvedRowsRepaired(d) ==
    \A i \in DOMAIN d.inconsistent_states :
        LET row == d.inconsistent_states[i]
        IN  (row.resolved = 1 /\ row.resolved_by = "auto")
              => /\ \E k \in DOMAIN d.trades :
                       /\ d.trades[k].type = "close"
                       /\ d.trades[k].order_id = row.exchange_order_id
                       /\ d.trades[k].symbol = row.symbol
                       /\ d.trades[k].side = row.side
                 /\ [symbol |-> row.symbol, side |-> row.side] \notin d.positions

\* ---------------------------------------------------------------------
\* C15: a row with resolved = 1 and resolved_by = 'auto' has a committed
\* repair: a close trade with its exchange_order_id exists and no position
\* row of its (symbol, side) is left, in the committed store and in the
\* connection's view of it; a row goes from resolved = 0 to 1 only by the
\* UPDATE that follows the COMMIT of its own repair, and a row whose
\* resolveState returned false or threw is not marked.
C15_ResolvedMeansRepaired ==
    [][/\ ResolvedRowsRepaired(db')
       /\ ResolvedRowsRepaired(committed')
       /\ \A i \in DOMAIN db.inconsistent_states :
            (db.inconsistent_states[i].resolved = 0
               /\ db'.inconsistent_states[i].resolved = 1)
              => /\ step'.op = "mark"
                 /\ step'.ok
                 /\ step'.row = i
                 /\ pass[step'.p].pc = "mark"
                 /\ CloseTradesOf(committed, i) # {}
       /\ \A i \in step'.failed :
            db.inconsistent_states[i].resolved = 0
              => db'.inconsistent_states[i].resolved = 0]_vars

\* Row 1 has been repaired and marked: its close trade is committed and its
\* position is gone.
C15_Witness ==
    /\ step.op = "mark"
    /\ step.resolved = 1
    /\ committed.inconsistent_states[1].resolved = 1
    /\ committed.inconsistent_states[1].resolved_by = "auto"
    /\ CloseTradesOf(committed, 1) # {}
    /\ [symbol |-> Symbol, side |-> "long"] \notin committed.positions

\* The rows that the run in slot p selected.
Selected(p) == {pass[p].rows[k] : k \in DOMAIN pass[p].rows}

\* ---------------------------------------------------------------------
\* C16: a pass that finds no unresolved row ends at its SELECT: it writes
\* nothing to the store, calls the exchange for no row and counts nothing.
\* A row with resolved = 1 is terminal: no pass selects a row that is
\* resolved, and from the moment the store shows the row with resolved = 1
\* no step changes the row or sets it back to 0, in the store as the
\* connection shows it and in what is committed.
C16_ResolvedIsTerminal ==
    [][/\ (step'.op = "select" /\ step'.ok /\ Unresolved(db) = <<>>)
            => /\ UNCHANGED <<db, committed, inTxn, failureTracker>>
               /\ pass' = [pass EXCEPT ![step'.p] = IdlePass]
               /\ step'.ended
               /\ step'.alerts = {}
       /\ (step'.op = "select" /\ step'.ok /\ ~step'.ended)
            => \A k \in DOMAIN pass'[step'.p].rows :
                   db.inconsistent_states[pass'[step'.p].rows[k]].resolved = 0
       /\ \A i \in DOMAIN db.inconsistent_states :
            db.inconsistent_states[i].resolved = 1
              => db'.inconsistent_states[i] = db.inconsistent_states[i]
       /\ \A i \in DOMAIN committed.inconsistent_states :
            committed.inconsistent_states[i].resolved = 1
              => committed'.inconsistent_states[i] =
                     committed.inconsistent_states[i]]_vars

\* ---------------------------------------------------------------------
\* C17: the failure counter of a row goes up by one each time a run leaves
\* the row unresolved and is cleared when a run marks it resolved; an alert
\* for the row is sent exactly with the failures that bring its counter to
\* ROW_ALERT_THRESHOLD (5) or more, and with none before.
C17_RowCounterAndAlert ==
    [][/\ \A i \in RowIds :
            failureTracker'.failedStates[i] =
                IF i \in step'.failed THEN failureTracker.failedStates[i] + 1
                ELSE IF step'.resolved = i THEN 0
                ELSE failureTracker.failedStates[i]
       /\ \A i \in step'.failed : db'.inconsistent_states[i].resolved = 0
       /\ step'.resolved # 0 => db'.inconsistent_states[step'.resolved].resolved = 1
       /\ \A i \in RowIds :
            (\E a \in step'.alerts : a.level = "ERROR" /\ a.stateId = i)
              <=> (i \in step'.failed
                     /\ failureTracker'.failedStates[i] >= ROW_ALERT_THRESHOLD)]_vars

\* The fifth failure in a row of row 1 has just sent its alert.
C17_Witness ==
    /\ 1 \in step.failed
    /\ failureTracker.failedStates[1] = ROW_ALERT_THRESHOLD
    /\ \E a \in step.alerts :
           a.level = "ERROR" /\ a.stateId = 1 /\ a.failureCount = ROW_ALERT_THRESHOLD

\* The rows with failures on record.
FailedRows(t) == {i \in RowIds : t.failedStates[i] > 0}

\* The step ended a run that reached checkOverallFailures.
PassChecked(st) ==
    st.ended /\ ~(st.op = "select" /\ st.reason \in {"empty", "throws"})

\* ---------------------------------------------------------------------
\* C18: a CRITICAL alert is raised at the end of a pass exactly when the run
\* of consecutive failed resolutions has reached OVERALL_ALERT_THRESHOLD (10)
\* failures and these failures are spread over distinct rows (more than one
\* row has failures on record); a successful resolution restarts the run.
C18_CriticalAcrossDistinctRows ==
    [][/\ (\E a \in step'.alerts : a.level = "CRITICAL")
            <=> /\ PassChecked(step')
                /\ failureTracker'.consecutiveFailures >= OVERALL_ALERT_THRESHOLD
                /\ Cardinality(FailedRows(failureTracker')) >= 2
       /\ step'.resolved # 0
            => failureTracker'.consecutiveFailures = Cardinality(step'.failed)]_vars

\* An active trigger of store d whose (symbol, side) has no position row and
\* no position on the exchange.
OrphanTriggers(d) ==
    {o \in d.price_orders :
        /\ o.status = "active"
        /\ [symbol |-> o.symbol, side |-> o.side] \notin d.positions
        /\ exchange.positions[o.side] = 0}

\* ---------------------------------------------------------------------
\* C19: when a pass has ended (its SELECT did not throw), the committed
\* store holds no active trigger whose (symbol, side) has neither a position
\* row nor a position on the exchange.
C19_NoOrphanTriggerAfterPass ==
    [][(step'.ended /\ ~(step'.op = "select" /\ step'.reason = "throws"))
         => OrphanTriggers(committed)' = {}]_vars

\* Slot p is inside resolveClosePosition: between the call of the exchange
\* and the end of the store phase.
InRepair(p) ==
    pass[p].pc \in {"exchange", "trades", "openTrade", "begin", "delete", "cancel",
                    "insertTrade", "insertEvent", "commit", "rollback"}

\* ---------------------------------------------------------------------
\* C20: two executions of resolveClosePosition for the same (symbol, side)
\* are never in progress at once, and no BEGIN TRANSACTION is issued on
\* dbClient while a transaction is open on it.
C20_RepairsSerialized ==
    /\ \A p, q \in Passes :
          (p # q /\ InRepair(p) /\ InRepair(q))
            => \/ CurrentRow(p).symbol # CurrentRow(q).symbol
               \/ CurrentRow(p).side # CurrentRow(q).side
    /\ ~(step.op = "begin" /\ step.reason = "inTransaction")

\* ================================================= Part 4: FeeService
\* src/src/services/feeService.ts.  getActualFeeFromTrade has one await (the
\* exchange's getMyTrades), so a call is the steps FeeLookup (entry up to the
\* await or to the return) and FeeQueryReturns (from the exchange's answer to
\* the return).  Fees are in units of 0.0001 USDT.
otherThanFee == <<coordVars, instVars, reconVars, mailVars, gateVars, lateVars>>

\* The entry is served only on its last served instant's side of the lifetime
\* (a variant that also serves an entry exactly CACHE_TTL old).
ServedInclusive(entry, t) == t - entry.timestamp <= CACHE_TTL

\* cached && Date.now() - cached.timestamp < this.CACHE_TTL
Served(entry, t) == t - entry.timestamp < CACHE_TTL

\* matchedTrades.reduce((sum, trade) => sum + Math.abs(parseFloat(trade.fee)), 0)
RECURSIVE SumAbs(_)
SumAbs(fs) == IF fs = <<>> THEN 0 ELSE Abs(Head(fs)) + SumAbs(Tail(fs))

ActualResult(fs) == [fee |-> SumAbs(fs), source |-> "actual", rate |-> 0]

estimateFee(notionalValue, isMaker) ==
    LET feeConfig == FEE_RATES[feeExchangeName][feeNetworkType]
        feeRate == IF isMaker THEN feeConfig.maker ELSE feeConfig.taker
    IN [fee |-> Abs(notionalValue * feeRate), source |-> "estimated",
        rate |-> feeRate]

\* getFee, from the answer of getActualFeeFromTrade on:
\* if (actualFee && actualFee.fee > 0) return actualFee; return estimateFee(..)
FeeOf(actualFee, notionalValue, isMaker) ==
    IF actualFee # NullResult /\ actualFee.fee > 0
    THEN actualFee
    ELSE estimateFee(notionalValue, isMaker)

\* What the call in frame c returns once getActualFeeFromTrade answered.
FeeReturn(c, actual) ==
    IF c.via = "getFee" THEN FeeOf(actual, c.notional, c.isMaker) ELSE actual

\* The slot a new call takes.
FreeFeeSlot == IF feeCall["f1"].pc = "idle" THEN "f1" ELSE "f2"

\* Entry of getFee(orderId, contract, notional, isMaker) or of a direct
\* getActualFeeFromTrade(orderId, contract), up to the await or the return.
\* The call takes the first free slot.
FeeLookup(via, o, n, m) ==
    LET c == [pc |-> "query", via |-> via, orderId |-> o, notional |-> n,
              isMaker |-> m]
        f == FreeFeeSlot
    IN /\ feeCall[f].pc = "idle"
       /\ via = "getActualFeeFromTrade" => o # NoOrder
       /\ IF o = NoOrder
          THEN /\ feeLast' = FeeStep(via, "entry", f, c, NullResult,
                                     estimateFee(n, m), FALSE, TRUE, TRUE)
               /\ UNCHANGED feeCall
          ELSE IF o \in DOMAIN feeCache /\ Served(feeCache[o], feeNow)
          THEN /\ feeLast' = FeeStep(via, "entry", f, c, feeCache[o].result,
                                     FeeReturn(c, feeCache[o].result),
                                     FALSE, TRUE, TRUE)
               /\ UNCHANGED feeCall
          ELSE /\ feeCall' = [feeCall EXCEPT ![f] = c]
               /\ feeLast' = FeeStep(via, "entry", f, c, NullResult, NullResult,
                                     TRUE, TRUE, FALSE)
       /\ UNCHANGED <<feeNow, feeCache, fills, otherThanFee>>

\* getMyTrades answers the call in slot f (ok) or throws; the rest of
\* getActualFeeFromTrade and of getFee.
FeeQueryReturns(f, ok) ==
    LET c == feeCall[f]
        matchedTrades == fills[c.orderId]
        actual == IF ok /\ matchedTrades # <<>>
                  THEN ActualResult(matchedTrades)
                  ELSE NullResult
    IN /\ c.pc = "query"
       /\ feeCache' = IF actual # NullResult
                      THEN (c.orderId :> [result |-> actual,
                                          timestamp |-> feeNow]) @@ feeCache
                      ELSE feeCache
       /\ feeCall' = [feeCall EXCEPT ![f] = IdleFeeCall]
       /\ feeLast' = FeeStep(c.via, "answer", f, c, actual, FeeReturn(c, actual),
                             TRUE, ok, TRUE)
       /\ UNCHANGED <<feeNow, fills, otherThanFee>>

\* cleanupCache()
cleanupCache ==
    LET expired == {o \in DOMAIN feeCache :
                        feeNow - feeCache[o].timestamp > CACHE_TTL}
    IN /\ feeCache' = [o \in DOMAIN feeCache \ expired |-> feeCache[o]]
       /\ feeLast' = FeeOp("cleanupCache")
       /\ UNCHANGED <<feeNow, fills, feeCall, otherThanFee>>

\* The exchange fills (part of) order o and charges fee f.
RECURSIVE TotalFills(_)
TotalFills(S) ==
    IF S = {} THEN 0
    ELSE LET o == CHOOSE x \in S : TRUE
         IN Len(fills[o]) + TotalFills(S \ {o})

ExchangeFill(o, f) ==
    /\ TotalFills(OrderIds) < MaxFills
    /\ fills' = [fills EXCEPT ![o] = Append(@, f)]
    /\ feeLast' = FeeOp("fill")
    /\ UNCHANGED <<feeNow, feeCache, feeCall, otherThanFee>>

\* Time passes.
FeeTick ==
    /\ \E d \in FeeClock : StartTime + d > feeNow /\ feeNow' = StartTime + d
    /\ feeLast' = FeeOp("tick")
    /\ UNCHANGED <<feeCache, fills, feeCall, otherThanFee>>

NextFee ==
    \/ \E via \in {"getFee", "getActualFeeFromTrade"},
          o \in OrderIds \cup {NoOrder}, a \in FeeArgs :
            FeeLookup(via, o, a[1], a[2])
    \/ \E f \in FeeCalls, ok \in BOOLEAN : FeeQueryReturns(f, ok)
    \/ cleanupCache
    \/ \E o \in OrderIds, f \in FillFees : ExchangeFill(o, f)
    \/ FeeTick

SpecFee == Init /\ [][NextFee]_vars

\* ===================================================== claims, part 4
\* C21: getFee returns source 'actual', with the sum of the absolute fees of
\* the order's fills, whenever an order id is given and the exchange's recent
\* fills hold a fill of that order; otherwise (no order id, no fill, or the
\* exchange query failed) it returns source 'estimated' with
\* fee = |notional * rate|.  It always returns.
C21_ActualWheneverFilled ==
    (feeLast.op = "getFee" /\ feeLast.done) =>
        LET o == feeLast.orderId
            has == /\ o # NoOrder
                   /\ fills[o] # <<>>
                   /\ ~(feeLast.queried /\ ~feeLast.exchangeOk)
            feeConfig == FEE_RATES[feeExchangeName][feeNetworkType]
            rate == IF feeLast.isMaker THEN feeConfig.maker ELSE feeConfig.taker
        IN IF has
           THEN /\ feeLast.result.source = "actual"
                /\ feeLast.result.fee = SumAbs(fills[o])
           ELSE /\ feeLast.result.source = "estimated"
                /\ feeLast.result.fee = Abs(feeLast.notional * rate)

\* C22: a cached fee is served only while its age is below 300 s: a lookup
\* made 300 s or more after the entry was stored queries the exchange again,
\* an earlier one returns the cached result without an exchange call, a
\* lookup that found no fill stores nothing, and cleanupCache removes only
\* entries that are no longer served.
C22_CacheLifetime ==
    [][/\ (feeLast'.phase = "entry" /\ feeCall[feeLast'.call].pc = "idle"
              /\ feeLast'.orderId \in DOMAIN feeCache) =>
            LET e == feeCache[feeLast'.orderId]
            IN IF feeNow - e.timestamp >= 300000
               THEN feeCall'[feeLast'.call].pc = "query" /\ feeLast'.queried
               ELSE /\ feeCall'[feeLast'.call].pc = "idle"
                    /\ ~feeLast'.queried
                    /\ feeLast'.actual = e.result
                    /\ feeCache' = feeCache
       /\ (feeLast'.phase = "answer" /\ feeLast'.actual = NullResult) =>
            feeCache' = feeCache
       /\ (feeLast'.phase = "answer" /\ feeLast'.actual # NullResult) =>
            /\ feeLast'.orderId \in DOMAIN feeCache'
            /\ feeCache'[feeLast'.orderId] =
                   [result |-> feeLast'.actual, timestamp |-> feeNow]
       /\ feeLast'.op = "cleanupCache" =>
            /\ \A o \in DOMAIN feeCache \ DOMAIN feeCache' :
                   feeNow - feeCache[o].timestamp >= 300000
            /\ \A o \in DOMAIN feeCache' : feeCache'[o] = feeCache[o]
      ]_vars

\* A lookup finds an entry that is exactly 300 s old and queries the
\* exchange again.
C22_Witness ==
    /\ feeLast.phase = "entry"
    /\ feeLast.queried
    /\ feeLast.orderId \in DOMAIN feeCache
    /\ feeNow - feeCache[feeLast.orderId].timestamp = 300000

\* ========================================== Part 5: EmailAlertService
\* src/src/utils/orderIdExtractor.ts:136-240.  sendAlert has one await (the
\* transporter's sendMail), so a call is the steps SendAlert (entry up to the
\* await or to `return false`) and SendMailReturns (from sendMail's outcome to
\* the return).  Several calls may be suspended in sendMail at once.
otherThanMail == <<coordVars, instVars, reconVars, feeVars, gateVars, lateVars>>

\* initialize(): the service is enabled when the SMTP settings are all there.
Initialize(configured) ==
    /\ enabled' = (enabled \/ configured)
    /\ UNCHANGED <<mailNow, lastAlertTime, sending, sent, mailLast,
                   otherThanMail>>

\* if (now - lastTime < this.alertCooldown) return false
InCooldown(lastTime, t) == t - lastTime < alertCooldown

\* E-mails in flight and accepted.
Mails == Len(sent) + Cardinality({s \in Senders : sending[s].pc = "sendMail"})

\* sendAlert(alert), up to `await this.transporter.sendMail`.
\* What a returned sendAlert call leaves in the history: its key and
\* message, the value returned and why.
Returned(key, message, value, why) ==
    [op |-> "sendAlert", key |-> key, message |-> message,
     returned |-> value, why |-> why, at |-> mailNow]

SendAlert(s, level, title, message) ==
    LET key == alertKey(level, title)
        lastTime == lastAlertTime[key]
    IN /\ sending[s].pc = "idle"
       /\ Mails < MaxMails
       /\ IF ~enabled
          THEN /\ mailLast' = Returned(key, message, FALSE, "disabled")
               /\ UNCHANGED sending
          ELSE IF InCooldown(lastTime, mailNow)
          THEN /\ mailLast' = Returned(key, message, FALSE, "cooldown")
               /\ UNCHANGED sending
          ELSE /\ sending' = [sending EXCEPT
                      ![s] = [pc |-> "sendMail", key |-> key, now |-> mailNow,
                              message |-> message]]
               /\ UNCHANGED mailLast
       /\ UNCHANGED <<mailNow, lastAlertTime, enabled, sent, otherThanMail>>

\* The last-send times when a failed sendMail also starts the cooldown.
StampAlways(ok, times, key, t) == [times EXCEPT ![key] = t]

\* this.lastAlertTime.set(alertKey, now), reached only when sendMail resolved.
Stamp(ok, times, key, t) == IF ok THEN [times EXCEPT ![key] = t] ELSE times

\* sendMail resolves (ok) or rejects; the rest of sendAlert.
SendMailReturns(s, ok) ==
    LET c == sending[s]
    IN /\ c.pc = "sendMail"
       /\ sending' = [sending EXCEPT ![s] = IdleSend]
       /\ lastAlertTime' = Stamp(ok, lastAlertTime, c.key, c.now)
       /\ sent' = IF ok THEN Append(sent, [key |-> c.key, at |-> c.now])
                  ELSE sent
       /\ mailLast' = Returned(c.key, c.message, ok,
                               IF ok THEN "sent" ELSE "sendMail failed")
       /\ UNCHANGED <<mailNow, enabled, otherThanMail>>

\* Time passes.
MailTick ==
    /\ \E d \in MailClock : StartTime + d > mailNow /\ mailNow' = StartTime + d
    /\ UNCHANGED <<lastAlertTime, enabled, sending, sent, mailLast,
                   otherThanMail>>

NextMail ==
    \/ \E configured \in BOOLEAN : Initialize(configured)
    \/ \E s \in Senders, level \in AlertLevels, title \in AlertTitles,
          message \in AlertMessages :
            SendAlert(s, level, title, message)
    \/ \E s \in Senders, ok \in BOOLEAN : SendMailReturns(s, ok)
    \/ MailTick

SpecMail == Init /\ [][NextMail]_vars

\* ===================================================== claims, part 5
\* C23: for every alert key (level, title) at most one e-mail is sent in any
\* 5-minute window: any two e-mails of one key are handed to sendMail at
\* least 300 s apart, whatever the interleaving of the sendAlert calls.
C23_OneMailPerWindow ==
    \A i, j \in DOMAIN sent :
        (i < j /\ sent[i].key = sent[j].key) =>
            Abs(sent[j].at - sent[i].at) >= 300000

\* ========================================= Part 6: GateExchangeClient
\* src/src/agents/compactPrompt.ts:553-1595.
otherThanGate == <<coordVars, instVars, reconVars, feeVars, mailVars, lateVars>>

\* --------------------------------------- the retrying read operations
\* getFuturesTicker, getFuturesCandles, getFuturesAccount, getPositions: the
\* loop `for (let i = 0; i <= retries; i++)`.  A call is the steps ReadStart,
\* ReadAttempt (one exchange call and what follows up to the next await) and
\* ReadWake (the end of a backoff sleep).

\* A wait that grows by one second per retry (a variant of the backoff).
BackoffLinear(i) == 1000 * (i + 1)

\* setTimeout(resolve, 1000 * Math.pow(2, i))
BackoffDelay(i) == 1000 * 2^i

\* if (error?.status === 401 || error?.response?.status === 401) throw error
\* is in getFuturesAccount only.
ThrowsAtOnce(op, status) == op = "getFuturesAccount" /\ status = 401

ReadDone(c, outcome, errors) ==
    [op |-> c.op, retries |-> c.retries, outcome |-> outcome,
     attempts |-> c.i + 1, waits |-> c.waits, errors |-> errors]

ReadStart(op, retries) ==
    /\ readCall.pc = "idle"
    /\ readCall' = [pc |-> "attempt", op |-> op, retries |-> retries,
                    i |-> 0, waits |-> <<>>, errors |-> <<>>]
    /\ gateLast' = [op |-> "start"]
    /\ UNCHANGED <<gx, contractInfoCache, gateCall, gateRun, otherThanGate>>

ReadAttempt(status) ==
    LET c == readCall
        errors == Append(c.errors, status)
    IN /\ c.pc = "attempt"
       /\ IF status = 200
          THEN /\ readCall' = IdleRead
               /\ gateLast' = ReadDone(c, "returned", c.errors)
          ELSE IF ThrowsAtOnce(c.op, status) \/ c.i >= c.retries
          THEN /\ readCall' = IdleRead
               /\ gateLast' = ReadDone(c, "thrown", errors)
          ELSE /\ readCall' = [c EXCEPT !.pc = "wait", !.errors = errors,
                                 !.waits = Append(@, BackoffDelay(c.i))]
               /\ gateLast' = [op |-> "attempt"]
       /\ UNCHANGED <<gx, contractInfoCache, gateCall, gateRun, otherThanGate>>

ReadWake ==
    /\ readCall.pc = "wait"
    /\ readCall' = [readCall EXCEPT !.pc = "attempt", !.i = @ + 1]
    /\ gateLast' = [op |-> "wake"]
    /\ UNCHANGED <<gx, contractInfoCache, gateCall, gateRun, otherThanGate>>

NextGateRead ==
    \/ \E op \in ReadOps, retries \in RetryInputs : ReadStart(op, retries)
    \/ \E status \in ReadStatuses : ReadAttempt(status)
    \/ ReadWake

SpecGateRead == Init /\ [][NextGateRead]_vars

\* ----------------------------------------------------- claims, reads
\* C24: a failing read is retried with exponential backoff: the wait before
\* retry i is 1 s, 2 s, 4 s (i = 1, 2, 3); a success ends the loop at once;
\* no wait follows the last attempt; after the last failed attempt the last
\* error is rethrown.  (Retries end early only at a 401 of getFuturesAccount.)
C24_BackoffSchedule ==
    /\ \A k \in DOMAIN readCall.waits :
           readCall.waits[k] = <<1000, 2000, 4000>>[k]
    /\ readCall.pc = "wait" => Len(readCall.waits) = Len(readCall.errors)
    /\ readCall.pc = "attempt" =>
           /\ Len(readCall.waits) = readCall.i
           /\ Len(readCall.errors) = readCall.i
    /\ (gateLast.op \in ReadOps) =>
           /\ \A k \in DOMAIN gateLast.waits :
                  gateLast.waits[k] = <<1000, 2000, 4000>>[k]
           /\ gateLast.attempts = Len(gateLast.waits) + 1
           /\ gateLast.outcome = "returned" =>
                  /\ Len(gateLast.errors) = gateLast.attempts - 1
                  /\ \A k \in DOMAIN gateLast.errors : gateLast.errors[k] # 200
           /\ gateLast.outcome = "thrown" =>
                  /\ Len(gateLast.errors) = gateLast.attempts
                  /\ gateLast.errors[gateLast.attempts] # 200
                  /\ \/ gateLast.attempts = gateLast.retries + 1
                     \/ /\ gateLast.op = "getFuturesAccount"
                        /\ gateLast.errors[gateLast.attempts] = 401

\* A call with three retries fails four times: it has waited 1 s, 2 s and
\* 4 s and rethrows the last error.
C24_Witness ==
    /\ gateLast.op \in ReadOps
    /\ gateLast.outcome = "thrown"
    /\ gateLast.waits = <<1000, 2000, 4000>>
    /\ gateLast.errors = <<500, 500, 500, 500>>

\* C25: no retrying read operation retries an HTTP 401: the first 401 ends
\* the call after exactly one attempt and without a backoff wait.
C25_Never401Retry ==
    /\ \A k \in DOMAIN readCall.errors : readCall.errors[k] # 401
    /\ (gateLast.op \in ReadOps) =>
           ((\E k \in DOMAIN gateLast.errors : gateLast.errors[k] = 401) =>
                /\ gateLast.outcome = "thrown"
                /\ gateLast.errors = <<401>>
                /\ gateLast.waits = <<>>)

\* ------------------------------------------------------- the doubles
\* A double x that stands for a decimal of thousandths:
\* milli = 1000 * the decimal, off = the sign of (x - the decimal).
\* A whole price is the double itself.
Exactly(price) == [milli |-> price * 1000, off |-> 0]

\* The factors 1 - 0.015, 1 + 0.015, 1 - 0.005, 1 + 0.005, 1 - 0.003 and
\* 1 + 0.003 as doubles, by their thousandths q: the double is K / 2^53
\* below 1 with 125 * K = q * 2^50 + Rho(q), and K / 2^52 above 1 with
\* 125 * K = q * 2^49 + Rho(q).
Rho(q) ==
    CASE q = 985 -> -15
      [] q = 1015 -> -55
      [] q = 995 -> -5
      [] q = 1005 -> -60
      [] q = 997 -> -3
      [] q = 1003 -> -61

RECURSIVE PowMod(_, _, _)
\* b^n modulo m
PowMod(b, n, m) == IF n = 0 THEN 1 ELSE (b * PowMod(b, n - 1, m)) % m

\* The e with 2^(e-1) <= milli / 1000 < 2^e: an ulp of the double nearest to
\* milli / 1000 is 2^(e-53).
Binade(milli) ==
    CHOOSE e \in 0..14 : 2^e * 500 <= milli /\ milli < 2^e * 1000

\* currentPrice * (1 + d) and currentPrice * (1 - d), q = 1000 * (1 +- d):
\* the double nearest to currentPrice * K / 2^s, ties to the even one.  In
\* ulps the exact product is I + F / 125 + currentPrice * Rho(q) /
\* (125 * 2^E), with I + F / 125 the decimal currentPrice * q / 1000 and I
\* of the parity of F.
Times(currentPrice, q) ==
    LET milli == currentPrice * q
        e == Binade(milli)
        E == IF q > 1000 THEN e - 1 ELSE e
        F == ((milli % 125) * PowMod(2, 50 - e, 125)) % 125
        num == F * 2^E + currentPrice * Rho(q)
        den == 125 * 2^E
        floor == (num - (num % den)) \div den
        rem2 == 2 * (num % den)
        R == IF rem2 > den THEN floor + 1
             ELSE IF rem2 < den THEN floor
             ELSE IF (F + floor) % 2 = 0 THEN floor ELSE floor + 1
        x == 125 * R - F
    IN [milli |-> milli,
        off |-> IF x > 0 THEN 1 ELSE IF x < 0 THEN -1 ELSE 0]

\* -------------------------------------------------------- placeOrder
\* Math.round(x / unit) * unit and x.toFixed(n) for a double x >= 0, unit
\* in thousandths: the multiple of the unit nearest to x, the upper one at a
\* half; x is at a half when its decimal is and x is not below the decimal.
RoundHalfUp(x, unit) ==
    LET n == (2 * x.milli + unit) \div (2 * unit)
        half == (2 * x.milli) % (2 * unit) = unit
    IN (IF half /\ x.off < 0 THEN n - 1 ELSE n) * unit

\* Math.min
Min(a, b) == IF a < b THEN a ELSE b

\* The clamp without the sign of the request (a variant that always sends a
\* buy).
ClampSizeUnsigned(size, info) ==
    LET absSize == Abs(size)
        maxSize == IF info.orderSizeMax # 0
                   THEN Min(info.orderSizeMax, API_MAX_SIZE)
                   ELSE API_MAX_SIZE
    IN IF absSize > maxSize THEN maxSize
       ELSE IF info.orderSizeMin # 0 /\ absSize < info.orderSizeMin
       THEN info.orderSizeMin
       ELSE absSize

\* adjustedSize of placeOrder.
ClampSize(size, info) ==
    LET absSize == Abs(size)
        afterMin == IF info.orderSizeMin # 0 /\ absSize < info.orderSizeMin
                    THEN IF size > 0 THEN info.orderSizeMin
                         ELSE -info.orderSizeMin
                    ELSE size
        maxSize == IF info.orderSizeMax # 0
                   THEN Min(info.orderSizeMax, API_MAX_SIZE)
                   ELSE API_MAX_SIZE
    IN IF absSize > maxSize
       THEN IF size > 0 THEN maxSize ELSE -maxSize
       ELSE afterMin

\* adjustedPrice of placeOrder, a double: maxDeviation = 0.015, and the side
\* of the band comes from params.size.  The quotient |price - markPrice| /
\* markPrice of two whole numbers is the double nearest to the fraction, and
\* 0.015 the double nearest to 15 / 1000: they compare as the fractions do.
ClampPrice(size, price, markPrice) ==
    IF price > 0 /\ markPrice > 0
          /\ Abs(price - markPrice) * 1000 > 15 * markPrice
    THEN Times(markPrice, IF size > 0 THEN 1015 ELSE 985)
    ELSE Exactly(price)

\* formatPrice: Math.round(price * 100000000) / 100000000 and toString, in
\* thousandths ("0" for no price).  price * 10^8 is within 10^-3 of the
\* whole number milli * 10^5 (an ulp of a price below 2^14 is below
\* 2 * 10^-12), Math.round gives that number and the quotient the double
\* nearest to the decimal, which toString writes as the decimal.
formatPrice(x) == IF x.milli = 0 THEN 0 ELSE x.milli

\* ------------------------------- setPositionStopLoss: the trigger price
\* A stop-loss of a long and a take-profit of a short trigger when the price
\* falls to them (rule 2, <=): they belong below the mark; the other two
\* (rule 1, >=) above it.
Below(kind, side) == (kind = "stop_loss") = (side = "long")

\* The trigger price after the checks of lines 1302-1325 (stop-loss) and
\* 1394-1417 (take-profit), a double: 0.5% beyond the mark for a price on
\* the triggered side, 0.3% for one closer than 0.3% (the quotient compares
\* with 0.003 as the fractions do, see ClampPrice).
TriggerPrice(kind, side, requested, currentPrice) ==
    LET below == Below(kind, side)
        isInvalid == IF below THEN requested >= currentPrice
                     ELSE requested <= currentPrice
    IN IF isInvalid
       THEN Times(currentPrice, IF below THEN 995 ELSE 1005)
       ELSE IF Abs(requested - currentPrice) * 1000 < 3 * currentPrice
       THEN Times(currentPrice, IF below THEN 997 ELSE 1003)
       ELSE Exactly(requested)

\* formatPriceByTickSize once getContractInfo has answered, in thousandths:
\* Math.round(price / tickSize) * tickSize written with the decimals of the
\* tick (none for a whole tick), or, when the contract's metadata cannot be
\* had, price.toFixed(2).
formatPriceByTickSize(price, ok, info) ==
    IF ok
    THEN RoundHalfUp(price, info.tick * 1000)
    ELSE RoundHalfUp(price, CENT)

TriggerOrder(id, kind, side, price, closeSize) ==
    [id |-> id, kind |-> kind, rule |-> IF Below(kind, side) THEN 2 ELSE 1,
     price |-> price, size |-> closeSize]

\* The success field setPositionStopLoss returns: false when the stop-loss
\* was not created; when the take-profit was not, true only if a stop-loss
\* order id is there.
SetResult(wantSL, slCreated, wantTP, tpCreated) ==
    IF wantSL /\ ~slCreated THEN FALSE
    ELSE IF wantTP /\ ~tpCreated THEN slCreated
    ELSE TRUE

\* ------------------------------------------------ the calls under way
\* A call is a chain of steps, one per await of the exchange: the step of an
\* answer is the exchange's handling of the request together with what the
\* adapter does with the answer up to its next request.

\* The frame a new call takes.
FreeGateCall == IF gateCall["g1"].pc = "idle" THEN "g1" ELSE "g2"

\* History record of a step that is not the return of a call.
Awaiting == [op |-> "await"]

Begun == [gateRun EXCEPT !.calls = @ + 1]
Failed == [gateRun EXCEPT !.faults = @ + 1]
MayFail == gateRun.faults < MaxCallFaults

\* What placeOrder returns or throws.
PlaceReturn(fr, sends, outcome) ==
    [op |-> "placeOrder", size |-> fr.size, price |-> fr.price,
     sends |-> sends, sent |-> fr.order, outcome |-> outcome]

\* What setPositionStopLoss returns once it has found the position: the
\* returns of lines 1355-1374, 1447-1471 and 1473.
SetReturn(fr) ==
    LET wantSL == fr.stopLoss > 0
        slCreated == \E t \in fr.placed : t.kind = "stop_loss"
        wantTP == fr.takeProfit > 0 /\ (wantSL => slCreated)
        tpCreated == \E t \in fr.placed : t.kind = "take_profit"
    IN [op |-> "setPositionStopLoss", side |-> fr.side,
        stopLoss |-> fr.stopLoss, takeProfit |-> fr.takeProfit,
        success |-> SetResult(wantSL, slCreated, wantTP, tpCreated),
        placed |-> fr.placed, cancelled |-> fr.cancelled]

\* What it returns without a position or when getPositions throws (lines
\* 1251-1256 and 1476-1482).
SetReturnEarly(fr) ==
    [op |-> "setPositionStopLoss", side |-> "",
     stopLoss |-> fr.stopLoss, takeProfit |-> fr.takeProfit,
     success |-> FALSE, placed |-> {}, cancelled |-> FALSE]

\* placeOrder from the ContractInfo on (lines 775-797): the size, then the
\* ticker for a limit order, createFuturesOrder for a market order.
PlaceAfterInfo(fr, info) ==
    LET adjustedSize == ClampSize(fr.size, info)
    IN IF fr.price > 0
       THEN [fr EXCEPT !.pc = "ticker", !.i = 0,
                       !.order = [NoGateOrder EXCEPT
                                      !.size = adjustedSize]]
       ELSE [fr EXCEPT !.pc = "create",
                       !.order = [size |-> adjustedSize,
                                  price |-> formatPrice(Exactly(0)),
                                  tif |-> "ioc"]]

\* placeOrder(params): getContractInfo answers from the cache without a
\* request, or asks the exchange.
PlaceOrder(size, price) ==
    LET g == FreeGateCall
        fr == [IdleGateCall EXCEPT !.op = "placeOrder", !.size = size,
                                   !.price = price]
    IN /\ gateCall[g].pc = "idle"
       /\ gateRun.calls < MaxGateOps
       /\ gateRun' = Begun
       /\ gateCall' =
            [gateCall EXCEPT ![g] =
                IF Contract \in DOMAIN contractInfoCache
                THEN PlaceAfterInfo(fr, contractInfoCache[Contract])
                ELSE [fr EXCEPT !.pc = "info"]]
       /\ gateLast' = Awaiting
       /\ UNCHANGED <<gx, contractInfoCache, readCall, otherThanGate>>

\* What getContractInfo hands to a caller from outside the client.
InfoReturn(ok, info) ==
    IF ok THEN [op |-> "getContractInfo", outcome |-> "returned",
                info |-> info]
    ELSE [op |-> "getContractInfo", outcome |-> "thrown"]

\* getContractInfo(contract) called on its own (lines 893-898): the cached
\* ContractInfo is returned without a request, or the exchange is asked.
getContractInfo ==
    LET g == FreeGateCall
    IN /\ gateCall[g].pc = "idle"
       /\ gateRun.calls < MaxGateOps
       /\ gateRun' = Begun
       /\ IF Contract \in DOMAIN contractInfoCache
          THEN /\ gateCall' = gateCall
               /\ gateLast' = InfoReturn(TRUE, contractInfoCache[Contract])
          ELSE /\ gateCall' =
                    [gateCall EXCEPT ![g] =
                        [IdleGateCall EXCEPT !.op = "getContractInfo",
                                             !.pc = "info"]]
               /\ gateLast' = Awaiting
       /\ UNCHANGED <<gx, contractInfoCache, readCall, otherThanGate>>

\* setPositionStopLoss(contract, stopLoss?, takeProfit?); 0 stands for an
\* omitted price.  The call asks for the positions.
setPositionStopLoss(stopLoss, takeProfit) ==
    LET g == FreeGateCall
    IN /\ gateCall[g].pc = "idle"
       /\ gateRun.calls < MaxGateOps
       /\ gateRun' = Begun
       /\ gateCall' =
            [gateCall EXCEPT ![g] =
                [IdleGateCall EXCEPT !.op = "setPositionStopLoss",
                                     !.pc = "positions",
                                     !.stopLoss = stopLoss,
                                     !.takeProfit = takeProfit]]
       /\ gateLast' = Awaiting
       /\ UNCHANGED <<gx, contractInfoCache, readCall, otherThanGate>>

\* futuresApi.getFuturesContract answers (getContractInfo, lines 899-922):
\* the ContractInfo is cached and returned, or the error rethrown.  A
\* caller from outside gets the one or the other;
\* placeOrder goes on with it or throws; formatPriceByTickSize rounds to the
\* tick or, in its catch, to two decimals, and createPriceTriggeredOrder is
\* called.
ContractAnswers(g, ok) ==
    LET fr == gateCall[g]
    IN /\ fr.pc = "info"
       /\ ~ok => MayFail
       /\ gateRun' = IF ok THEN gateRun ELSE Failed
       /\ contractInfoCache' =
            IF ok THEN (Contract :> gx.info) @@ contractInfoCache
            ELSE contractInfoCache
       /\ IF fr.op = "getContractInfo"
          THEN /\ gateCall' = [gateCall EXCEPT ![g] = IdleGateCall]
               /\ gateLast' = InfoReturn(ok, gx.info)
          ELSE IF fr.op = "placeOrder"
          THEN IF ok
               THEN /\ gateCall' =
                         [gateCall EXCEPT ![g] = PlaceAfterInfo(fr, gx.info)]
                    /\ gateLast' = Awaiting
               ELSE /\ gateCall' = [gateCall EXCEPT ![g] = IdleGateCall]
                    /\ gateLast' = PlaceReturn(fr, FALSE, "thrown")
          ELSE /\ gateCall' =
                    [gateCall EXCEPT ![g] =
                        [fr EXCEPT !.pc = "create",
                                   !.pending =
                                       [milli |-> formatPriceByTickSize(
                                                      fr.pending, ok, gx.info),
                                        off |-> 0]]]
               /\ gateLast' = Awaiting
       /\ UNCHANGED <<gx, readCall, otherThanGate>>

\* futuresApi.listFuturesTickers answers (getFuturesTicker returns).
\* placeOrder: the price of the order, then createFuturesOrder (lines
\* 798-860).  setPositionStopLoss: the trigger price, then
\* formatPriceByTickSize, whose getContractInfo answers from the cache or
\* asks the exchange (lines 1294-1328, 1386-1420).
TickerAnswers(g) ==
    LET fr == gateCall[g]
        sentPrice == formatPrice(ClampPrice(fr.size, fr.price, gx.mark))
        requested == IF fr.kind = "stop_loss" THEN fr.stopLoss
                     ELSE fr.takeProfit
        price == TriggerPrice(fr.kind, fr.side, requested, gx.mark)
    IN /\ fr.pc = "ticker"
       /\ gateCall' =
            [gateCall EXCEPT ![g] =
                IF fr.op = "placeOrder"
                THEN [fr EXCEPT !.pc = "create",
                                !.order = [size |-> fr.order.size,
                                           price |-> sentPrice,
                                           tif |-> IF sentPrice # 0
                                                   THEN "gtc" ELSE "ioc"]]
                ELSE IF Contract \in DOMAIN contractInfoCache
                THEN [fr EXCEPT !.pc = "create",
                                !.pending =
                                    [milli |-> formatPriceByTickSize(
                                                   price, TRUE,
                                                   contractInfoCache[Contract]),
                                     off |-> 0]]
                ELSE [fr EXCEPT !.pc = "info", !.pending = price]]
       /\ gateLast' = Awaiting
       /\ UNCHANGED <<gx, contractInfoCache, readCall, gateRun, otherThanGate>>

\* A request of getFuturesTicker or getPositions (retries = 2) fails: the
\* loop sleeps 1000 * 2^i ms before the next attempt, and after the third
\* failure the error is thrown.  placeOrder rethrows it; setPositionStopLoss
\* returns success = false for the positions and what its catch blocks
\* return for the ticker.
RetryFails(g) ==
    LET fr == gateCall[g]
    IN /\ fr.pc \in {"ticker", "positions"}
       /\ MayFail
       /\ gateRun' = Failed
       /\ IF fr.i < 2
          THEN /\ gateCall' =
                    [gateCall EXCEPT ![g] =
                        [fr EXCEPT !.pc = IF fr.pc = "ticker"
                                          THEN "tickerSleep"
                                          ELSE "positionsSleep"]]
               /\ gateLast' = Awaiting
          ELSE /\ gateCall' = [gateCall EXCEPT ![g] = IdleGateCall]
               /\ gateLast' = IF fr.op = "placeOrder"
                              THEN PlaceReturn(fr, FALSE, "thrown")
                              ELSE IF fr.pc = "positions"
                              THEN SetReturnEarly(fr)
                              ELSE SetReturn(fr)
       /\ UNCHANGED <<gx, contractInfoCache, readCall, otherThanGate>>

\* The sleep of the retry loop ends: the next attempt.
RetryWake(g) ==
    LET fr == gateCall[g]
    IN /\ fr.pc \in {"tickerSleep", "positionsSleep"}
       /\ gateCall' =
            [gateCall EXCEPT ![g] =
                [fr EXCEPT !.pc = IF fr.pc = "tickerSleep" THEN "ticker"
                                  ELSE "positions",
                           !.i = @ + 1]]
       /\ gateLast' = Awaiting
       /\ UNCHANGED <<gx, contractInfoCache, readCall, gateRun, otherThanGate>>

\* futuresApi.listPositions answers (lines 1248-1272): without a position
\* the call returns success = false, with one it asks the exchange to cancel
\* the contract's price-triggered orders.
PositionsAnswer(g) ==
    LET fr == gateCall[g]
        pos == gx.position
    IN /\ fr.pc = "positions"
       /\ IF pos = 0
          THEN /\ gateCall' = [gateCall EXCEPT ![g] = IdleGateCall]
               /\ gateLast' = SetReturnEarly(fr)
          ELSE /\ gateCall' =
                    [gateCall EXCEPT ![g] =
                        [fr EXCEPT !.pc = "cancel", !.i = 0,
                                   !.side = IF pos > 0 THEN "long"
                                            ELSE "short",
                                   !.closeSize = Abs(pos)]]
               /\ gateLast' = Awaiting
       /\ UNCHANGED <<gx, contractInfoCache, readCall, gateRun, otherThanGate>>

\* What follows the cancellation or a created stop-loss: the stop-loss part
\* if a stop-loss is asked for and not yet done (line 1286), else the
\* take-profit part if a take-profit is asked for (line 1378), each
\* beginning with getFuturesTicker; with neither the call has come to its
\* final return (line 1473) and the frame is free.
NextPart(fr) ==
    IF fr.kind = "" /\ fr.stopLoss > 0
    THEN [fr EXCEPT !.pc = "ticker", !.i = 0, !.kind = "stop_loss"]
    ELSE IF fr.kind # "take_profit" /\ fr.takeProfit > 0
    THEN [fr EXCEPT !.pc = "ticker", !.i = 0, !.kind = "take_profit"]
    ELSE IdleGateCall

\* What the caller sees when the frame goes on to NextPart(fr): nothing
\* yet, or the final return.
AfterPart(fr) ==
    IF NextPart(fr).pc = "idle" THEN SetReturn(fr) ELSE Awaiting

\* futuresApi.cancelPriceTriggeredOrderList answers (lines 1269-1280): the
\* triggers are gone, or the error is logged and the call goes on.
CancelAnswers(g, ok) ==
    LET fr == gateCall[g]
        after == [fr EXCEPT !.cancelled = ok]
    IN /\ fr.pc = "cancel"
       /\ ~ok => MayFail
       /\ gateRun' = IF ok THEN gateRun ELSE Failed
       /\ gx' = IF ok THEN [gx EXCEPT !.triggers = {}] ELSE gx
       /\ gateCall' = [gateCall EXCEPT ![g] = NextPart(after)]
       /\ gateLast' = AfterPart(after)
       /\ UNCHANGED <<contractInfoCache, readCall, otherThanGate>>

\* futuresApi.createFuturesOrder (lines 860-873) or
\* futuresApi.createPriceTriggeredOrder (lines 1348-1374, 1440-1471)
\* answers.  A limit order the exchange accepts rests as an open order; a
\* market order (price "0", tif ioc) fills or lapses at once, and the
\* position it leaves is the exchange's own step (ExchangePosition).  After
\* a stop-loss the take-profit part follows if a take-profit is asked for.
CreateAnswers(g, ok) ==
    LET fr == gateCall[g]
        rests == fr.order.price # 0
        t == TriggerOrder(gx.nextId, fr.kind, fr.side, fr.pending.milli,
                          fr.closeSize)
        created == [fr EXCEPT !.placed = @ \cup {t}]
    IN /\ fr.pc = "create"
       /\ ~ok => MayFail
       /\ gateRun' = IF ok THEN gateRun ELSE Failed
       /\ IF fr.op = "placeOrder"
          THEN /\ (ok /\ rests) => gx.nextId <= MaxOrderId
               /\ gx' = IF ok /\ rests
                        THEN [gx EXCEPT !.orders = @ \cup {gx.nextId},
                                        !.nextId = @ + 1]
                        ELSE gx
               /\ gateCall' = [gateCall EXCEPT ![g] = IdleGateCall]
               /\ gateLast' = PlaceReturn(fr, TRUE,
                                  IF ok THEN "returned" ELSE "thrown")
          ELSE IF ok
          THEN /\ gx.nextId <= MaxId
               /\ gx' = [gx EXCEPT !.triggers = @ \cup {t},
                                   !.nextId = @ + 1]
               /\ gateCall' = [gateCall EXCEPT ![g] = NextPart(created)]
               /\ gateLast' = AfterPart(created)
          ELSE /\ gx' = gx
               /\ gateCall' = [gateCall EXCEPT ![g] = IdleGateCall]
               /\ gateLast' = SetReturn(fr)
       /\ UNCHANGED <<contractInfoCache, readCall, otherThanGate>>

\* cancelOrder(orderId).  What the exchange may answer: 200 and the order is
\* gone, 404 for an id that is not an open order, 429 for a request it turns
\* away, 500.  A 404 and any error of code ERR_BAD_REQUEST (every 4xx) give
\* {id, status: 'finished'}; other errors are rethrown.
CancelOrder(id, status) ==
    LET exists == id \in gx.orders
    IN /\ status \in (IF exists THEN {200, 429, 500} ELSE {404, 429, 500})
       /\ gateRun.calls < MaxGateOps
       /\ gateRun' = Begun
       /\ gx' = IF status = 200 THEN [gx EXCEPT !.orders = @ \ {id}] ELSE gx
       /\ gateLast' =
            [op |-> "cancelOrder", target |-> id, status |-> status,
             outcome |-> IF status \in {200, 404, 429} THEN "ok"
                         ELSE "thrown",
             repeat |-> /\ gateLast.op = "cancelOrder"
                        /\ gateLast.target = id
                        /\ gateLast.outcome = "ok",
             changed |-> gx' # gx]
       /\ UNCHANGED <<contractInfoCache, readCall, gateCall, otherThanGate>>

\* The position changes on the exchange's side.
ExchangePosition(size) ==
    /\ gx.position # size
    /\ gateRun.moves < MaxPositionMoves
    /\ gateRun' = [gateRun EXCEPT !.moves = @ + 1]
    /\ gx' = [gx EXCEPT !.position = size]
    /\ gateLast' = [op |-> "position"]
    /\ UNCHANGED <<contractInfoCache, readCall, gateCall, otherThanGate>>

\* The calls under way go on.
GateCallStep ==
    \/ \E g \in GateCalls, ok \in BOOLEAN : ContractAnswers(g, ok)
    \/ \E g \in GateCalls : TickerAnswers(g)
    \/ \E g \in GateCalls : RetryFails(g)
    \/ \E g \in GateCalls : RetryWake(g)
    \/ \E g \in GateCalls, ok \in BOOLEAN : CreateAnswers(g, ok)

\* The price of a limit order: the mark moved by k thousandths.
LimitPrice(k) == gx.mark + (gx.mark * k) \div 1000

NextGateOrders ==
    \/ \E r \in OrderRequests :
          PlaceOrder(r[1], IF r[2] = 0 THEN 0 ELSE LimitPrice(r[2]))
    \/ getContractInfo
    \/ GateCallStep
    \/ \E id \in 1..MaxOrderId, status \in {200, 404, 429, 500} :
          CancelOrder(id, status)

InitGateOrders ==
    /\ InitCoordinator /\ InitInstances /\ InitReconIdle
    /\ InitFeeService /\ InitMail /\ InitGate /\ InitPureIdle /\ InitPrices

SpecGateOrders == InitGateOrders /\ [][NextGateOrders]_vars

\* ------------------------------------------------ claims, placeOrder
\* C26: for a requested size s # 0 the size placeOrder sends has the sign of
\* s and an absolute value in [orderSizeMin, min(orderSizeMax, 10 000 000)]:
\* a smaller size is raised to the minimum, a larger one lowered to the
\* maximum, a size inside the interval is sent unchanged.
C26_SizeClamped ==
    (gateLast.op = "placeOrder" /\ gateLast.sends) =>
        LET s == gateLast.size
            q == gateLast.sent.size
            lo == gx.info.orderSizeMin
            hi == IF gx.info.orderSizeMax < 10000000
                  THEN gx.info.orderSizeMax ELSE 10000000
        IN /\ (s > 0) = (q > 0)
           /\ lo <= Abs(q) /\ Abs(q) <= hi
           /\ Abs(s) < lo => Abs(q) = lo
           /\ Abs(s) > hi => Abs(q) = hi
           /\ (lo <= Abs(s) /\ Abs(s) <= hi) => q = s

\* A sell of 10 000 001 contracts on a contract whose own maximum is larger
\* is sent as a sell of 10 000 000.
C26_Witness ==
    /\ gateLast.op = "placeOrder"
    /\ gateLast.sends
    /\ gateLast.size = -10000001
    /\ gateLast.sent.size = -10000000

\* C27: for a limit order with price p > 0 and mark m > 0 the price sent is
\* within 1.5% of m: p itself when |p - m| / m <= 1.5%, and otherwise the
\* edge of the band nearest to p (m * 1.015 if p > m, m * 0.985 if p < m),
\* whatever the sign of the order size.
C27_PriceClampedToNearestEdge ==
    (gateLast.op = "placeOrder" /\ gateLast.sends /\ gateLast.price > 0
        /\ gx.mark > 0) =>
        LET p == gateLast.price
            m == gx.mark
            q == gateLast.sent.price
        IN /\ Abs(q - m * 1000) <= 15 * m
           /\ IF Abs(p - m) * 1000 <= 15 * m
              THEN q = p * 1000
              ELSE IF p > m THEN q = m * 1015 ELSE q = m * 985

\* ------------------------------- setPositionStopLoss and cancellation
\* futuresApi.cancelPriceTriggeredOrderList for the contract: what the
\* exchange may answer (404 stands for "nothing to cancel") and what is left.
CancelListStatuses ==
    IF gx.triggers = {} THEN {200, 404, 500} ELSE {200, 500}

CancelTriggers(op, status, outcome) ==
    /\ status \in CancelListStatuses
    /\ gateRun.calls < MaxGateOps
    /\ gateRun' = Begun
    /\ gx' = IF status = 200 THEN [gx EXCEPT !.triggers = {}] ELSE gx
    /\ gateCall' = gateCall
    /\ gateLast' =
         [op |-> op, target |-> 0, status |-> status, outcome |-> outcome,
          repeat |-> /\ gateLast.op = op
                     /\ gateLast.outcome = "ok",
          changed |-> gx' # gx]
    /\ UNCHANGED <<contractInfoCache, readCall, otherThanGate>>

\* cancelAllOrders(contract): returns the body or rethrows.
cancelAllOrders(status) ==
    CancelTriggers("cancelAllOrders", status,
                   IF status = 200 THEN "ok" ELSE "thrown")

\* cancelPositionStopLoss(contract): {success: true} or {success: false}.
cancelPositionStopLoss(status) ==
    CancelTriggers("cancelPositionStopLoss", status,
                   IF status = 200 THEN "ok" ELSE "failed")

\* A requested trigger price: none, or the mark moved by k thousandths.
Requested(k) == IF k = 0 THEN 0 ELSE gx.mark + (gx.mark * k) \div 1000

NextGateTriggers ==
    \/ \E r \in TriggerRequests :
          setPositionStopLoss(Requested(r[1]), Requested(r[2]))
    \/ \E g \in GateCalls : PositionsAnswer(g)
    \/ \E g \in GateCalls, ok \in BOOLEAN : CancelAnswers(g, ok)
    \/ GateCallStep
    \/ \E status \in {200, 404, 500} : cancelAllOrders(status)
    \/ \E status \in {200, 404, 500} : cancelPositionStopLoss(status)
    \/ \E status \in {404, 429, 500} : CancelOrder(1, status)
    \/ \E size \in PositionSizes : ExchangePosition(size)

InitGateTriggers ==
    /\ InitGateOrders
    /\ gx.info.orderSizeMax < API_MAX_SIZE

SpecGateTriggers == InitGateTriggers /\ [][NextGateTriggers]_vars

\* ---------------------------------------------------- claims, triggers
\* C28: every trigger setPositionStopLoss places is on the not-yet-triggered
\* side of the mark (a long's stop-loss and a short's take-profit below it,
\* the other two above it) and at least 0.3% away from it, rounding to the
\* tick included.
C28_TriggerKeepsSafeDistance ==
    gateLast.op = "setPositionStopLoss" =>
        \A t \in gateLast.placed :
            /\ IF Below(t.kind, gateLast.side)
               THEN t.price < gx.mark * 1000
               ELSE t.price > gx.mark * 1000
            /\ Abs(t.price - gx.mark * 1000) >= 3 * gx.mark

\* C29: after any sequence of setPositionStopLoss calls the exchange holds at
\* most one active stop-loss trigger and at most one active take-profit
\* trigger for the contract, also when the cancellation of the previous
\* triggers fails.
C29_OneTriggerOfEachKind ==
    \A kind \in {"stop_loss", "take_profit"} :
        Cardinality({t \in gx.triggers : t.kind = kind}) <= 1

\* C30: cancelling triggers or an order is idempotent: an exchange 404 is
\* reported as success, and a second call after a successful one succeeds
\* again and leaves the exchange as the first call left it.
C30_CancelIdempotent ==
    (gateLast.op \in {"cancelAllOrders", "cancelPositionStopLoss",
                      "cancelOrder"}) =>
        /\ gateLast.status = 404 => gateLast.outcome = "ok"
        /\ (gateLast.repeat /\ gateLast.status # 500) =>
               (gateLast.outcome = "ok" /\ ~gateLast.changed)

\* ====================================================================
\* Part 7: pure functions of the Gate adapter and of the prompt builder
\* ====================================================================
otherThanPure ==
    <<coordVars, instVars, reconVars, feeVars, mailVars, gateVars, priceVars>>

\* The characters of str before the first separator: str.split(sep)[0].
RECURSIVE SplitFirst(_, _)
SplitFirst(str, sep) ==
    IF str = <<>> \/ Head(str) = sep
    THEN <<>>
    ELSE <<Head(str)>> \o SplitFirst(Tail(str), sep)

\* The Binance form of a contract name, without separator.
normalizeContractJoined(symbol) == symbol \o USDT

\* GateExchangeClient.normalizeContract: `${symbol}_USDT`.
NormalizeContract(symbol) == symbol \o <<"_">> \o USDT

\* GateExchangeClient.extractSymbol: contract.split('_')[0].
ExtractSymbol(contract) == SplitFirst(contract, "_")

\* The filter of getPositions: the symbol is there and is configured.
Allowed(p) ==
    LET symbol == SplitFirst(p.contract, "_")
    IN symbol # <<>> /\ symbol \in TRADING_SYMBOLS

\* filteredPositions: the entries of the body that pass the filter, in order.
RECURSIVE FilterPositions(_)
FilterPositions(body) ==
    IF body = <<>>
    THEN <<>>
    ELSE (IF Allowed(Head(body)) THEN <<Head(body)>> ELSE <<>>)
             \o FilterPositions(Tail(body))

\* stageInfo of the prompt: '|S3(已平66%)', '|S2(已平33%)', '|S1(已平部分)'
\* or nothing, by the stage it names.
StageInfo(partialClosed) ==
    IF partialClosed >= 66 THEN "S3"
    ELSE IF partialClosed >= 33 THEN "S2"
    ELSE IF partialClosed > 0 THEN "S1"
    ELSE ""

\* The warning flag f of the prompt: '⚠️紧急' (emergency), '⚠️预' (warning)
\* or nothing.
WarningFlag(warningScore, reversalWarning) ==
    IF reversalWarning = 1 /\ warningScore >= 70 THEN "emergency"
    ELSE IF warningScore >= 50 THEN "warning"
    ELSE ""

\* getPositions returns on a successful listPositions.
GetPositions ==
    /\ fnIn.kind = "positions" /\ fnOut = NotApplied
    /\ fnOut' = [applied |-> TRUE, value |-> FilterPositions(fnIn.body)]
    /\ UNCHANGED <<fnIn, otherThanPure>>

\* extractSymbol(normalizeContract(symbol)).
SymbolRoundTrip ==
    /\ fnIn.kind = "symbol" /\ fnOut = NotApplied
    /\ fnOut' = [applied |-> TRUE,
                 there |-> NormalizeContract(fnIn.symbol),
                 back |-> ExtractSymbol(NormalizeContract(fnIn.symbol))]
    /\ UNCHANGED <<fnIn, otherThanPure>>

\* normalizeContract(extractSymbol(contract)).
ContractRoundTrip ==
    /\ fnIn.kind = "contract" /\ fnOut = NotApplied
    /\ fnOut' = [applied |-> TRUE,
                 there |-> ExtractSymbol(fnIn.contract),
                 back |-> NormalizeContract(ExtractSymbol(fnIn.contract))]
    /\ UNCHANGED <<fnIn, otherThanPure>>

\* The prompt line of a position: its partial-stage badge.
PromptStage ==
    /\ fnIn.kind = "stage" /\ fnOut = NotApplied
    /\ fnOut' = [applied |-> TRUE, stage |-> StageInfo(fnIn.partial)]
    /\ UNCHANGED <<fnIn, otherThanPure>>

\* The prompt line of a position: its warning flag.
PromptWarning ==
    /\ fnIn.kind = "warning" /\ fnOut = NotApplied
    /\ fnOut' = [applied |-> TRUE, flag |-> WarningFlag(
                     fnIn.warningScore,
                     IF fnIn.reversalWarning = -1 THEN 0
                     ELSE fnIn.reversalWarning)]
    /\ UNCHANGED <<fnIn, otherThanPure>>

NextPure ==
    \/ GetPositions
    \/ SymbolRoundTrip
    \/ ContractRoundTrip
    \/ PromptStage
    \/ PromptWarning

InitPure ==
    /\ InitCoordinator /\ InitInstances /\ InitReconIdle
    /\ InitFeeService /\ InitMail /\ InitGateIdle /\ InitPureInputs
    /\ InitPrices

SpecPure == InitPure /\ [][NextPure]_vars

\* C31: every entry getPositions returns belongs to a contract whose symbol
\* is configured and has a size other than 0.
C31_OnlyConfiguredNonZero ==
    (fnIn.kind = "positions" /\ fnOut.applied) =>
        \A i \in 1..Len(fnOut.value) :
            /\ ExtractSymbol(fnOut.value[i].contract) \in TRADING_SYMBOLS
            /\ fnOut.value[i].size # 0

\* C32: symbol normalization round-trips: normalizeContract(extractSymbol(c))
\* is c for every contract the exchange lists, and
\* extractSymbol(normalizeContract(s)) is s for every configured symbol.
C32_NormalizeRoundTrip ==
    /\ (fnIn.kind = "contract" /\ fnOut.applied) =>
           fnOut.back = fnIn.contract
    /\ (fnIn.kind = "symbol" /\ fnOut.applied) =>
           fnOut.back = fnIn.symbol

C32_Witness ==
    /\ fnIn.kind = "contract" /\ fnOut.applied
    /\ fnIn.contract = DOGE_USDT
    /\ fnOut.there = DOGE

\* C36: the badge derived from the written partial-close percentage agrees
\* with the legend of the prompt: nothing closed has no badge, 33% closed is
\* S1, 66% closed is S2, and S3 is shown only for 100% closed.
C36_BadgeAgreesWithLegend ==
    (fnIn.kind = "stage" /\ fnOut.applied) =>
        /\ fnIn.partial = 0 => fnOut.stage = ""
        /\ fnIn.partial = 33 => fnOut.stage = "S1"
        /\ fnIn.partial = 66 => fnOut.stage = "S2"
        /\ fnOut.stage = "S3" => fnIn.partial = 100

\* C37: a position with warningScore >= 70 carries the emergency flag
\* whatever reversalWarning is, and one with warningScore below 50 carries
\* no warning flag.
C37_EmergencyFromScore ==
    (fnIn.kind = "warning" /\ fnOut.applied) =>
        /\ fnIn.warningScore >= 70 => fnOut.flag = "emergency"
        /\ fnIn.warningScore < 50 => fnOut.flag = ""

\* ====================================================================
\* Part 8: GET /api/prices and the price cache
\* ====================================================================
otherThanPrices ==
    <<coordVars, instVars, reconVars, feeVars, mailVars, gateVars, pureVars>>

\* priceCache && Date.now() - priceCache.timestamp < PRICE_CACHE_TTL
Fresh(cache, t) == cache # NoCache /\ t - cache.timestamp < PRICE_CACHE_TTL

\* The response c.json({prices}) as the history keeps it.
\* age, held: the age and the prices of the cache the handler found at its
\* entry (-1: no cache); made: the ticker calls the handler made; window: the
\* penalty window was on at its entry; good: lastGood when it answers.
\* lastGood[x] is the last price of x that a ticker call returned and that
\* has reached the cache (0: none yet).
PriceResponse(r, prices, made, window, age, cached, good) ==
    [op |-> "prices", request |-> r, prices |-> prices, made |-> made,
     window |-> window, age |-> age, held |-> cached, good |-> good]

\* The age of the cache at time t.
CacheAge(cache, t) == IF cache = NoCache THEN -1 ELSE t - cache.timestamp

CachePrices(cache) ==
    IF cache = NoCache THEN [x \in PriceSymbols |-> 0] ELSE cache.prices

\* The handler from its entry to the first await: a fresh cache is served at
\* once, otherwise every symbol of the batch is asked for.
PricesRequest(r) ==
    /\ priceReqs[r].pc = "idle"
    /\ IF Fresh(priceCache, priceNow)
       THEN /\ priceLast' = PriceResponse(r, priceCache.prices, 0, penalty,
                                          CacheAge(priceCache, priceNow),
                                          priceCache.prices, lastGood)
            /\ UNCHANGED priceReqs
       ELSE /\ priceReqs' = [priceReqs EXCEPT ![r] =
                   [pc |-> "fetching", todo |-> PriceSymbols,
                    prices |-> [x \in PriceSymbols |-> 0],
                    fetched |-> {}, made |-> 0, window |-> penalty,
                    age |-> CacheAge(priceCache, priceNow),
                    held |-> CachePrices(priceCache)]]
            /\ UNCHANGED priceLast
    /\ UNCHANGED <<priceNow, priceCache, penalty, lastGood, otherThanPrices>>

\* getFuturesTicker of one symbol returns: prices[symbol] = last.
TickerReturns(r, x, price) ==
    LET q == priceReqs[r]
    IN /\ q.pc = "fetching" /\ x \in q.todo
       /\ ~penalty
       /\ priceReqs' = [priceReqs EXCEPT ![r] =
              [q EXCEPT !.todo = @ \ {x}, !.prices[x] = price,
                        !.fetched = @ \cup {x}, !.made = @ + 1]]
       /\ UNCHANGED <<priceNow, priceCache, penalty, lastGood, priceLast,
                      otherThanPrices>>

\* getFuturesTicker of one symbol throws: the price of the old cache, if it
\* has one, else 0.
TickerThrows(r, x) ==
    LET q == priceReqs[r]
        old == IF priceCache # NoCache /\ priceCache.prices[x] # 0
               THEN priceCache.prices[x]
               ELSE 0
    IN /\ q.pc = "fetching" /\ x \in q.todo
       /\ priceReqs' = [priceReqs EXCEPT ![r] =
              [q EXCEPT !.todo = @ \ {x}, !.prices[x] = old,
                        !.made = @ + 1]]
       /\ UNCHANGED <<priceNow, priceCache, penalty, lastGood, priceLast,
                      otherThanPrices>>

\* After Promise.all: the cache is replaced and the prices are sent.
PricesRespond(r) ==
    LET q == priceReqs[r]
    IN /\ q.pc = "fetching" /\ q.todo = {}
       /\ priceCache' = [prices |-> q.prices, timestamp |-> priceNow]
       /\ lastGood' = [x \in PriceSymbols |->
              IF x \in q.fetched THEN q.prices[x] ELSE lastGood[x]]
       /\ priceLast' = PriceResponse(r, q.prices, q.made, q.window,
                                     q.age, q.held, lastGood')
       /\ priceReqs' = [priceReqs EXCEPT ![r] = IdleRequest]
       /\ UNCHANGED <<priceNow, penalty, otherThanPrices>>

\* The exchange starts to reject every call.
PenaltyBegins ==
    /\ ~penalty
    /\ penalty' = TRUE
    /\ UNCHANGED <<priceNow, priceCache, priceReqs, lastGood, priceLast,
                   otherThanPrices>>

PriceTick ==
    /\ \E d \in PriceSteps :
          /\ priceNow + d <= MaxPriceTime
          /\ priceNow' = priceNow + d
    /\ UNCHANGED <<priceCache, priceReqs, penalty, lastGood, priceLast,
                   otherThanPrices>>

NextPrices ==
    \/ \E r \in Requests : PricesRequest(r)
    \/ \E r \in Requests, x \in PriceSymbols, price \in TickerPrices :
          TickerReturns(r, x, price)
    \/ \E r \in Requests, x \in PriceSymbols : TickerThrows(r, x)
    \/ \E r \in Requests : PricesRespond(r)
    \/ PenaltyBegins
    \/ PriceTick

SpecPrices == Init /\ [][NextPrices]_vars

\* C33: a cache younger than 5 s is served without an exchange call, and a
\* request handled in a penalty window returns, for each symbol fetched
\* successfully before, the last successfully fetched price.
C33_LastGoodInPenalty ==
    priceLast.op = "prices" =>
        /\ (priceLast.age >= 0 /\ priceLast.age < PRICE_CACHE_TTL) =>
               (priceLast.made = 0 /\ priceLast.prices = priceLast.held)
        /\ priceLast.window =>
               \A x \in PriceSymbols :
                   priceLast.good[x] # 0 =>
                       priceLast.prices[x] = priceLast.good[x]

\* ====================================================================
\* Part 9: further claims on the coordinator, the reconciler, the adapter
\* and the notifier
\* ====================================================================
\* getStats(): the penalty fields it reports.
getStats ==
    [isCircuitBreakerOpen |-> circuitBreakerOpenUntil > now,
     bannedUntil |-> ipBannedUntil,
     backoffUntil |-> backoffUntil]

\* The deadline d has passed.
Expired(d) == d > 0 /\ d <= now

\* C34: a waitForRateLimit call that is admitted clears every expired
\* one-shot state: an expired ban, backoff and circuit deadline is 0
\* afterwards (with consecutiveFailures 0 after a ban or circuit expiry), so
\* getStats() reports no stale bannedUntil or backoffUntil, and a deadline
\* still in the future is not cleared.
C34_ExpiredStatesCleared ==
    [][\A c \in Callers, e \in Endpoints :
          (WaitForRateLimit(c, e) /\ ~shouldBlockRequest.block) =>
              /\ Expired(ipBannedUntil) =>
                     (getStats'.bannedUntil = 0 /\ consecutiveFailures' = 0)
              /\ Expired(backoffUntil) => getStats'.backoffUntil = 0
              /\ Expired(circuitBreakerOpenUntil) =>
                     (circuitBreakerOpenUntil' = 0 /\ consecutiveFailures' = 0)
              /\ ipBannedUntil > now => ipBannedUntil' = ipBannedUntil
              /\ backoffUntil > now => backoffUntil' = backoffUntil
              /\ circuitBreakerOpenUntil > now =>
                     circuitBreakerOpenUntil' = circuitBreakerOpenUntil]_vars

\* The step handled row id and found a reason to leave it unresolved: the
\* exchange still has a position on the contract, no fill has the row's
\* order id, or no open trade of (symbol, side) is in the store.
LeftForCause(id) ==
    LET row == db.inconsistent_states[id]
    IN  /\ step'.row = id
        /\ \/ /\ step'.op = "exchange"
              /\ \E sd \in Sides : Abs(exchange.positions[sd]) > 0
           \/ /\ step'.op = "trades"
              /\ row.exchange_order_id \notin exchange.fills
           \/ /\ step'.op = "openTrade"
              /\ ~\E k \in DOMAIN db.trades :
                     /\ db.trades[k].symbol = row.symbol
                     /\ db.trades[k].side = row.side
                     /\ db.trades[k].type = "open"

\* The operation of row id has no case in resolveState.
UnknownOperation(id) ==
    db.inconsistent_states[id].operation
        \notin {"close_position", "price_order_triggered"}

\* C35: a row left unresolved leaves the store untouched: when the exchange
\* still has a position on the contract, or no fill matches, or no open
\* trade of (symbol, side) exists, or the operation has no case, the step
\* changes no table, the row stays at resolved = 0 and one failure is
\* counted for it; a close trade is inserted only when an open trade of the
\* same (symbol, side) exists.
C35_UnresolvedLeavesStore ==
    [][step' # step =>
         /\ \A id \in DOMAIN db.inconsistent_states :
               (\/ LeftForCause(id)
                \/ (id \in step'.failed /\ UnknownOperation(id))) =>
                   /\ id \in step'.failed
                   /\ db' = db /\ committed' = committed
                   /\ db'.inconsistent_states[id].resolved = 0
                   /\ failureTracker'.failedStates[id] =
                          failureTracker.failedStates[id] + 1
         /\ \A id \in DOMAIN db.inconsistent_states :
               UnknownOperation(id) =>
                   /\ db'.inconsistent_states[id].resolved = 0
                   /\ step'.row # id
         /\ Len(db'.trades) > Len(db.trades) =>
               LET new == db'.trades[Len(db'.trades)]
               IN  /\ new.type = "close"
                   /\ \E k \in DOMAIN db.trades :
                          /\ db.trades[k].symbol = new.symbol
                          /\ db.trades[k].side = new.side
                          /\ db.trades[k].type = "open"]_vars

C35_Witness ==
    /\ step.op = "openTrade" /\ step.reason = "noOpenTrade"
    /\ step.row \in step.failed
    /\ failureTracker.failedStates[step.row] > 0
    /\ db.inconsistent_states[step.row].resolved = 0

\* The last setPositionStopLoss call got past the position check.
SetReached == gateLast.op = "setPositionStopLoss" /\ gateLast.side # ""

PlacedOf(kind) == {t \in gateLast.placed : t.kind = kind}

\* The stop-loss was asked for and not created; the take-profit was asked
\* for after a created stop-loss and not created.
StopLossFailed == gateLast.stopLoss > 0 /\ PlacedOf("stop_loss") = {}

TakeProfitFailed ==
    /\ gateLast.stopLoss > 0 /\ PlacedOf("stop_loss") # {}
    /\ gateLast.takeProfit > 0 /\ PlacedOf("take_profit") = {}

\* What the two failures leave behind.
FailureOutcome ==
    /\ StopLossFailed =>
           /\ ~gateLast.success
           /\ {t \in gx.triggers : t.kind = "stop_loss"} = {}
           /\ PlacedOf("take_profit") = {}
    /\ TakeProfitFailed =>
           /\ gateLast.success
           /\ gx.triggers = PlacedOf("stop_loss")

\* C38 as stated: whenever the new stop-loss cannot be placed the call
\* returns success = false, the contract has no stop-loss trigger and the
\* take-profit is not attempted; when only the take-profit fails the call
\* returns success = true with only the new stop-loss active.
C38_FailureLeavesUnprotected == SetReached => FailureOutcome

\* C39: the cooldown of a key starts only when an e-mail was sent: a
\* suppressed alert, a failed sendMail and a call on the disabled service
\* leave the last-send times as they are and make sendAlert return false,
\* and inside the window of a key an alert with another message is
\* suppressed like an identical one.
C39_CooldownOnlyAfterSend ==
    [][/\ lastAlertTime' # lastAlertTime =>
             (Len(sent') = Len(sent) + 1 /\ mailLast'.returned)
       /\ \A s \in Senders, l \in AlertLevels, t \in AlertTitles,
             m \in AlertMessages :
             SendAlert(s, l, t, m) =>
                 /\ lastAlertTime' = lastAlertTime /\ sent' = sent
                 /\ (\/ ~enabled
                     \/ /\ lastAlertTime[<<l, t>>] > 0
                        /\ mailNow - lastAlertTime[<<l, t>>] < 300000) =>
                        /\ sending' = sending
                        /\ mailLast'.message = m
                        /\ mailLast'.returned = FALSE
       /\ \A s \in Senders :
             SendMailReturns(s, FALSE) =>
                 /\ lastAlertTime' = lastAlertTime /\ sent' = sent
                 /\ mailLast'.returned = FALSE]_vars

\* An alert for another row is suppressed inside the window opened by the
\* e-mail about the first row.
C39_Witness ==
    /\ mailLast.op = "sendAlert" /\ mailLast.why = "cooldown"
    /\ Len(sent) = 1
    /\ mailLast.key = sent[1].key
    /\ mailLast.message = "row 2"
    /\ lastAlertTime[mailLast.key] = sent[1].at
    /\ mailLast.at > sent[1].at

\* C40: after any sequence and interleaving of start() and stop() calls at
\* most one periodic timer is active, and none once stop() has cleared
\* this.resolveInterval.
C40_AtMostOneTimer ==
    /\ activeTimers <= 1
    /\ ~resolveInterval => activeTimers = 0

====
